---------------------------- MODULE Spec2Model ----------------------------
(***************************************************************************)
(* Model of src/memory/memory_manager.py: class MemoryManager (process     *)
(* connector, cached memory reader, pointer-chain resolver, reconnection   *)
(* monitor).                                                               *)
(*                                                                         *)
(* Two threads run the code: "caller" (read_memory, resolve_pointer_chain) *)
(* and "monitor" (_reconnection_monitor).  The code takes no lock, so the  *)
(* threads interleave; one action of the model is one Python statement     *)
(* (statements that touch only locals are merged into the step before).    *)
(*                                                                         *)
(* Time is in milliseconds.  Python integers are unbounded and the code    *)
(* compares against 2**48 and 2**64, so an integer n is kept as three      *)
(* limbs <<a2, a1, a0>> with n = a2*2^48 + a1*2^24 + a0, 0 <= a1,a0 < 2^24 *)
(* and a2 carrying the sign.                                               *)
(***************************************************************************)
EXTENDS Integers, Sequences, FiniteSets, TLC

\* ------------------------------------------------------------------ bounds
\* time.time() when the manager is constructed (an epoch time, ms).
T0 == 20000
\* Number of reconnect intervals the clock runs through.
MaxPeriods == 1
\* Process incarnations of the target executable (pids 1..MaxPid).
MaxPid == 2
\* OS handle values the kernel hands out (a closed value may be reused).
MaxHandle == 2
\* retries arguments tried: 0..MaxRetries.
MaxRetries == 2
\* Longest offset list given to resolve_pointer_chain.
MaxChainLen == 2
\* OS faults injected per behaviour (open denied, enumeration failed, read
\* failed or short on a healthy handle).
MaxFaults == 1
MaxCleanups == 2
\* calls of initialize() after the one of __init__
MaxInits == 1
\* actions in a path handed to the PathPlayer
MaxPath == 2
\* largest coordinate of a position handed to break_into_single_steps
MaxCoord == 2
\* characters in an address string typed by the user
MaxAddrLen == 4

\* --------------------------------------------------------- big integers
Limb == 2^24

Norm(a2, a1, a0) ==
    LET c0 == a0 \div Limb
        b1 == a1 + c0
        c1 == b1 \div Limb
    IN  <<a2 + c1, b1 % Limb, a0 % Limb>>

\* A small integer (|n| < 2^24) as a limb triple.
I(n) == Norm(0, 0, n)

Add(x, y) == Norm(x[1] + y[1], x[2] + y[2], x[3] + y[3])

Less(x, y) ==
    \/ x[1] < y[1]
    \/ x[1] = y[1] /\ x[2] < y[2]
    \/ x[1] = y[1] /\ x[2] = y[2] /\ x[3] < y[3]

Leq(x, y) == x = y \/ Less(x, y)

Sub(x, y) == Norm(x[1] - y[1], x[2] - y[2], x[3] - y[3])

\* 2**32, 2**48, 2**64
Pow2_32 == <<0, 2^8, 0>>
Pow2_48 == <<1, 0, 0>>
Pow2_64 == <<2^16, 0, 0>>

\* ----------------------------------------------------- program constants
None == <<>>
cache_duration == 100
cache_timeout == 10000
reconnect_interval == 5000
\* the monitor's pause: for _ in range(10): time.sleep(0.1)
monitor_sleep == 10 * 100

Threads == {"caller", "monitor"}

\* ctypes types and what .value holds after reading the 8-byte little-endian
\* word `raw` found at the address.
c_int32 == "c_int32"
c_uint32 == "c_uint32"
c_uint64 == "c_uint64"

\* (variant: every type is read as 32 bits)
ReadAs_Narrow(raw, ty) ==
    LET u32 == <<0, raw[2] % 2^8, raw[3]>>
    IN  IF ty = c_int32 /\ u32[2] >= 2^7 THEN Sub(u32, Pow2_32) ELSE u32

ReadAs(raw, ty) ==
    LET u32 == <<0, raw[2] % 2^8, raw[3]>>
    IN  CASE ty = c_uint64 -> <<raw[1] % 2^16, raw[2], raw[3]>>
          [] ty = c_uint32 -> u32
          [] ty = c_int32  -> IF u32[2] >= 2^7 THEN Sub(u32, Pow2_32) ELSE u32

VARIABLES
    \* environment
    now,            \* time.time(), ms
    grid,           \* the times at which the clock is looked at
    faults,         \* OS faults the environment may still inject
    proc,           \* pid of the running target process, 0 = not running
    procWow64,      \* the target executable is 32-bit on a 64-bit host
    nextPid,        \* pid the next incarnation gets
    osHandle,       \* handle value -> pid it is open on, 0 = not open
    mem,            \* the target's memory: address -> 8-byte word
    \* MemoryManager fields
    auto_reconnect, cache_enabled, blocked_regions,
    connected, pid, handle, base_addr, module_size, is_wow64, ptr_type,
    last_connect_attempt, memory_cache, cache_timestamp,
    stop_monitoring, monitor_thread,
    \* threads
    pc,             \* thread -> statement it is at
    stack,          \* thread -> return labels of the calls in progress
    rd,             \* read_memory's arguments and locals (caller thread)
    rs,             \* resolve_pointer_chain's arguments and locals
    wake,           \* monitor: end of its current pause
    result,         \* what the caller's last call returned or raised
    \* PathPlayer object, its threads and its hotkeys
    player,
    \* history (not program state)
    hist

envVars   == <<now, grid, faults, proc, procWow64, nextPid, osHandle, mem>>
cfgVars   == <<auto_reconnect, cache_enabled, blocked_regions>>
connVars  == <<connected, pid, handle, base_addr, module_size, is_wow64, ptr_type,
               last_connect_attempt>>
cacheVars == <<memory_cache, cache_timestamp>>
monVars   == <<stop_monitoring, monitor_thread, wake>>
callVars  == <<rd, rs, result>>
vars == <<envVars, cfgVars, connVars, cacheVars, monVars, callVars, pc, stack, player,
          hist>>

\* ------------------------------------------------------------- helpers
EmptyMap == [k \in {} |-> None]
MapPut(f, k, v) == [x \in DOMAIN f \cup {k} |-> IF x = k THEN v ELSE f[x]]
MapDrop(f, ks) == [x \in DOMAIN f \ ks |-> f[x]]

Goto(t, l) == pc' = [pc EXCEPT ![t] = l]
\* call: run `target`, then continue at `ret`
Call(t, target, ret) ==
    /\ pc' = [pc EXCEPT ![t] = target]
    /\ stack' = [stack EXCEPT ![t] = <<ret>> \o @]
\* return (or an exception caught by the caller's handler)
Return(t) ==
    /\ pc' = [pc EXCEPT ![t] = Head(stack[t])]
    /\ stack' = [stack EXCEPT ![t] = Tail(@)]

\* The handle value refers to an open handle of this process.
HandleOpen(h) == h # 0 /\ osHandle[h] # 0
\* ... and the process it is open on is alive.
HandleLive(h) == HandleOpen(h) /\ osHandle[h] = proc

\* Module base and image size of incarnation p (the loader may place every
\* incarnation elsewhere).
ModBase(p) == <<0, 64 * p, 0>>
ModSize(p) == 4096

\* (variant: a recorded pid counts as running)
is_process_running_Recorded == pid # 0

\* is_process_running: the recorded pid is a running process of that name.
is_process_running == pid # 0 /\ proc = pid

\* _try_reconnect's throttle test
Throttled(current_time, last) == current_time - last < reconnect_interval

\* (variant: the stamp is left as it was)
AttemptStamp_Kept(current_time, last) == last

\* time.time() stored by _connect
AttemptStamp(current_time, last) == current_time

\* ------------------------------------------------------ _close_handle
\* (variant: CloseHandle is called whatever self.handle holds)
ch_check_Always(t) ==
    /\ pc[t] = "ch_check"
    /\ Goto(t, "ch_close") /\ UNCHANGED stack
    /\ UNCHANGED <<envVars, cfgVars, connVars, cacheVars, monVars, callVars, hist>>
    /\ UNCHANGED player

\* line 442: if hasattr(self, 'handle') and self.handle:
ch_check(t) ==
    /\ pc[t] = "ch_check"
    /\ IF handle # 0
         THEN Goto(t, "ch_close") /\ UNCHANGED stack
         ELSE Return(t)
    /\ UNCHANGED <<envVars, cfgVars, connVars, cacheVars, monVars, callVars, hist>>
    /\ UNCHANGED player

\* line 444: self.kernel32.CloseHandle(self.handle); a failure is swallowed.
ch_close(t) ==
    /\ pc[t] = "ch_close"
    /\ osHandle' = IF HandleOpen(handle) THEN [osHandle EXCEPT ![handle] = 0]
                   ELSE osHandle
    /\ Goto(t, "ch_none")
    /\ hist' = [hist EXCEPT !.closeCalls =
                    @ + (IF t = "caller" /\ hist.inCleanup THEN 1 ELSE 0)]
    /\ UNCHANGED <<now, grid, faults, proc, procWow64, nextPid, mem, cfgVars, connVars,
                   cacheVars, monVars, callVars, stack>>
    /\ UNCHANGED player

\* line 449: self.handle = None
ch_none(t) ==
    /\ pc[t] = "ch_none"
    /\ handle' = 0
    /\ Return(t)
    /\ UNCHANGED <<envVars, cfgVars, connected, pid, base_addr, module_size,
                   is_wow64, ptr_type, last_connect_attempt, cacheVars, monVars,
                   callVars, hist>>
    /\ UNCHANGED player

\* ------------------------------------------------------ _try_reconnect
\* lines 459-467: throttle test, then _close_handle() and _connect().
tr_throttle(t) ==
    /\ pc[t] = "tr_throttle"
    /\ IF Throttled(now, last_connect_attempt)
         THEN /\ Return(t)
              /\ hist' = [hist EXCEPT !.tryCalls = @ + (IF t = "caller" THEN 1 ELSE 0)]
         ELSE /\ Call(t, "ch_check", "cn_stamp")
              /\ hist' = [hist EXCEPT !.prevPass = IF t = "caller" THEN hist.passAt[t] ELSE @,
                                      !.passAt[t] = now,
                                      !.callPasses = @ + (IF t = "caller" THEN 1 ELSE 0),
                                      !.tryCalls = @ + (IF t = "caller" THEN 1 ELSE 0)]
    /\ UNCHANGED <<envVars, cfgVars, connVars, cacheVars, monVars, callVars>>
    /\ UNCHANGED player

\* ------------------------------------------------------------ _connect
\* line 298: self.last_connect_attempt = time.time()
cn_stamp(t) ==
    /\ pc[t] = "cn_stamp"
    /\ last_connect_attempt' = AttemptStamp(now, last_connect_attempt)
    /\ Goto(t, "cn_find")
    /\ hist' = IF hist.track /\ t = "monitor"
                 THEN [hist EXCEPT !.cacheBefore = <<memory_cache, cache_timestamp>>]
                 ELSE hist
    /\ UNCHANGED <<envVars, cfgVars, connected, pid, handle, base_addr, module_size,
                   is_wow64, ptr_type, cacheVars, monVars, callVars, stack>>
    /\ UNCHANGED player

\* line 301: self.pid = self._find_process_pid()
cn_find(t) ==
    /\ pc[t] = "cn_find"
    /\ pid' = proc
    /\ Goto(t, IF proc = 0 THEN "cn_notfound" ELSE "cn_open")
    /\ UNCHANGED <<envVars, cfgVars, connected, handle, base_addr, module_size,
                   is_wow64, ptr_type, last_connect_attempt, cacheVars, monVars,
                   callVars, stack, hist>>
    /\ UNCHANGED player

\* lines 303-304, 327-329: self.connected = False; raise ProcessNotFoundError
cn_notfound(t) ==
    /\ pc[t] = "cn_notfound"
    /\ connected' = FALSE
    /\ Return(t)
    /\ hist' = [hist EXCEPT !.connErr[t] = "ProcessNotFoundError"]
    /\ UNCHANGED <<envVars, cfgVars, pid, handle, base_addr, module_size, is_wow64,
                   ptr_type, last_connect_attempt, cacheVars, monVars, callVars>>
    /\ UNCHANGED player

\* line 307: self.handle = self._open_process(self.pid); OpenProcess fails
\* when the pid is not a running process or the OS denies the open, and the
\* except clause of line 331 then runs _close_handle().
cn_open(t) ==
    /\ pc[t] = "cn_open"
    /\ \/ /\ pid # 0 /\ pid = proc
          /\ \E h \in 1..MaxHandle :
                /\ osHandle[h] = 0
                /\ osHandle' = [osHandle EXCEPT ![h] = pid]
                /\ handle' = h
          /\ Goto(t, "cn_arch")
          /\ UNCHANGED <<stack, faults>>
       \/ /\ \/ pid = 0 \/ pid # proc
             \/ \A h \in 1..MaxHandle : osHandle[h] # 0
          /\ Call(t, "ch_check", "cn_failed")
          /\ UNCHANGED <<osHandle, handle, faults>>
       \/ /\ pid # 0 /\ pid = proc /\ faults > 0
          /\ faults' = faults - 1
          /\ Call(t, "ch_check", "cn_failed")
          /\ UNCHANGED <<osHandle, handle>>
    /\ hist' = [hist EXCEPT !.envOk = @ /\ pc'[t] = "cn_arch"]
    /\ UNCHANGED <<now, grid, proc, procWow64, nextPid, mem, cfgVars, connected, pid,
                   base_addr, module_size, is_wow64, ptr_type, last_connect_attempt,
                   cacheVars, monVars, callVars>>
    /\ UNCHANGED player

\* lines 310-311: is_wow64 = _detect_wow64(handle); ptr_type by it.  On a
\* handle that is not open IsWow64Process fails and leaves is_wow at 0.
cn_arch(t) ==
    /\ pc[t] = "cn_arch"
    /\ is_wow64' = (HandleOpen(handle) /\ procWow64)
    /\ ptr_type' = IF is_wow64' THEN c_uint32 ELSE c_uint64
    /\ Goto(t, "cn_modinfo")
    /\ UNCHANGED <<envVars, cfgVars, connected, pid, handle, base_addr, module_size,
                   last_connect_attempt, cacheVars, monVars, callVars, stack, hist>>
    /\ UNCHANGED player

\* lines 314-320: module_info = _get_module_info(handle, name): the module's
\* (base, size); None when no module has the name (fields keep their values);
\* MemoryAccessError when EnumProcessModules fails (line 331 handles it).
cn_modinfo(t) ==
    /\ pc[t] = "cn_modinfo"
    /\ \/ /\ HandleLive(handle)
          /\ base_addr' = ModBase(osHandle[handle])
          /\ module_size' = ModSize(osHandle[handle])
          /\ Goto(t, "cn_clear1")
          /\ UNCHANGED <<stack, faults>>
          /\ hist' = [hist EXCEPT !.modinfo[t] = "found"]
       \/ /\ HandleLive(handle) /\ faults > 0
          /\ faults' = faults - 1
          /\ \/ /\ Goto(t, "cn_clear1") /\ UNCHANGED stack
                /\ hist' = [hist EXCEPT !.envOk = FALSE, !.modinfo[t] = "notfound"]
             \/ /\ Call(t, "ch_check", "cn_failed")
                /\ hist' = [hist EXCEPT !.envOk = FALSE, !.modinfo[t] = "enumfail"]
          /\ UNCHANGED <<base_addr, module_size>>
       \/ /\ ~HandleLive(handle)
          /\ Call(t, "ch_check", "cn_failed")
          /\ UNCHANGED <<base_addr, module_size, faults>>
          /\ hist' = [hist EXCEPT !.modinfo[t] = "enumfail"]
    /\ UNCHANGED <<now, grid, proc, procWow64, nextPid, osHandle, mem, cfgVars, connected,
                   pid, handle, is_wow64, ptr_type, last_connect_attempt, cacheVars,
                   monVars, callVars>>
    /\ UNCHANGED player

\* clear_cache, line 284: self.memory_cache.clear()
cn_clear1(t) ==
    /\ pc[t] = "cn_clear1"
    /\ memory_cache' = EmptyMap
    /\ hist' = [hist EXCEPT !.cacheSrc = EmptyMap, !.lastOk = EmptyMap, !.fresh = FALSE,
                            !.expect = None]
    /\ Goto(t, "cn_clear2")
    /\ UNCHANGED <<envVars, cfgVars, connVars, cache_timestamp, monVars, callVars, stack>>
    /\ UNCHANGED player

\* clear_cache, line 285: self.cache_timestamp.clear()
cn_clear2(t) ==
    /\ pc[t] = "cn_clear2"
    /\ cache_timestamp' = EmptyMap
    /\ Goto(t, "cn_live")
    /\ UNCHANGED <<envVars, cfgVars, connVars, memory_cache, monVars, callVars, stack, hist>>
    /\ UNCHANGED player

\* line 325: self.connected = True
cn_live(t) ==
    /\ pc[t] = "cn_live"
    /\ connected' = TRUE
    /\ Return(t)
    /\ hist' = [hist EXCEPT !.abandon = FALSE, !.connErr[t] = "None",
                            !.monLog = IF hist.track /\ t = "monitor" /\ ~connected
                                         THEN Append(@, "up") ELSE @]
    /\ UNCHANGED <<envVars, cfgVars, pid, handle, base_addr, module_size, is_wow64,
                   ptr_type, last_connect_attempt, cacheVars, monVars, callVars>>
    /\ UNCHANGED player

\* lines 333-334: self.connected = False; raise MemoryAccessError
cn_failed(t) ==
    /\ pc[t] = "cn_failed"
    /\ connected' = FALSE
    /\ Return(t)
    /\ hist' = [hist EXCEPT !.connErr[t] = "MemoryAccessError"]
    /\ UNCHANGED <<envVars, cfgVars, pid, handle, base_addr, module_size, is_wow64,
                   ptr_type, last_connect_attempt, cacheVars, monVars, callVars>>
    /\ UNCHANGED player

\* ----------------------------------------------- _reconnection_monitor
InRead == pc["caller"] \notin {"idle"} /\ rd.active

\* (variant: while True)
LoopGoesOn_Forever(stop) == TRUE

\* line 475: while not self.stop_monitoring
LoopGoesOn(stop) == ~stop

\* lines 475-485: the loop test and the if/elif of one iteration
m_check ==
    /\ pc["monitor"] = "m_check"
    /\ IF ~LoopGoesOn(stop_monitoring)
         THEN Goto("monitor", "m_exit") /\ UNCHANGED stack
         ELSE IF connected /\ ~is_process_running
           THEN Goto("monitor", "m_flip") /\ UNCHANGED stack
           ELSE IF ~connected
             THEN Call("monitor", "tr_throttle", "m_sleep")
             ELSE Goto("monitor", "m_sleep") /\ UNCHANGED stack
    /\ hist' = [hist EXCEPT !.lateIters =
                    @ + (IF stop_monitoring /\ LoopGoesOn(stop_monitoring) THEN 1 ELSE 0)]
    /\ UNCHANGED <<envVars, cfgVars, connVars, cacheVars, monVars, callVars>>
    /\ UNCHANGED player

\* (variant: the cache is emptied when the process is found gone)
m_flip_Clears ==
    /\ pc["monitor"] = "m_flip"
    /\ connected' = FALSE
    /\ memory_cache' = EmptyMap /\ cache_timestamp' = EmptyMap
    /\ Call("monitor", "ch_check", "m_sleep")
    /\ hist' = [hist EXCEPT !.monLog = IF hist.track THEN Append(@, "down") ELSE @]
    /\ UNCHANGED <<envVars, cfgVars, pid, handle, base_addr, module_size, is_wow64,
                   ptr_type, last_connect_attempt, monVars, callVars>>
    /\ UNCHANGED player

\* lines 480-481: self.connected = False; self._close_handle()
m_flip ==
    /\ pc["monitor"] = "m_flip"
    /\ connected' = FALSE
    /\ Call("monitor", "ch_check", "m_sleep")
    /\ hist' = [hist EXCEPT !.flipped = @ \/ InRead,
                            !.monLog = IF hist.track THEN Append(@, "down") ELSE @]
    /\ UNCHANGED <<envVars, cfgVars, pid, handle, base_addr, module_size, is_wow64,
                   ptr_type, last_connect_attempt, cacheVars, monVars, callVars>>
    /\ UNCHANGED player

\* lines 492-495: ten sleeps of 0.1 s, cut short by the stop flag
m_sleep ==
    /\ pc["monitor"] = "m_sleep"
    /\ wake' = now + monitor_sleep
    /\ Goto("monitor", "m_wait")
    /\ UNCHANGED <<envVars, cfgVars, connVars, cacheVars, stop_monitoring,
                   monitor_thread, callVars, stack, hist>>
    /\ UNCHANGED player

m_wait ==
    /\ pc["monitor"] = "m_wait"
    /\ stop_monitoring \/ now >= wake
    /\ Goto("monitor", "m_check")
    /\ UNCHANGED <<envVars, cfgVars, connVars, cacheVars, monVars, callVars, stack, hist>>
    /\ UNCHANGED player

\* ---------------------------------------------------------------- errors
\* What read_memory and resolve_pointer_chain raise, by kind.
ErrClass(kind) ==
    CASE kind \in {"NotConnected", "Blocked", "ReadFailed6", "ReadFailed299",
                   "PartialRead", "Generic", "ResolveFailed"} -> "MemoryAccessError"
      [] kind = "InvalidAddress" -> "ValueError"
      [] kind = "KeyError" -> "KeyError"
      [] kind = "TypeError" -> "TypeError"
      [] OTHER -> "None"

\* str(e), as words.  ctypes.WinError(6) is "[WinError 6] The handle is
\* invalid."; ctypes.WinError(299) is "[WinError 299] Only part of a
\* ReadProcessMemory or WriteProcessMemory request was completed."
ErrMsg(kind) ==
    CASE kind = "ReadFailed6" ->
           <<"Read", "failed", "(", "Error", "6", ")", ":", "[", "WinError", "6", "]",
             "The", "handle", "is", "invalid", ".">>
      [] kind = "ReadFailed299" ->
           <<"Read", "failed", "(", "Error", "299", ")", ":", "[", "WinError", "299", "]",
             "Only", "part", "of", "a", "ReadProcessMemory", "or", "WriteProcessMemory",
             "request", "was", "completed", ".">>
      [] kind = "PartialRead" -> <<"Partial", "read", ":", "n", "/", "m", "bytes", "at", "addr">>
      [] OTHER -> <<kind>>

\* needle in str(e), on words
Contains(msg, needle) ==
    \E k \in 0..(Len(msg) - Len(needle)) :
        \A j \in 1..Len(needle) : msg[k + j] = needle[j]

\* line 217: isinstance(e, MemoryAccessError) and "Handle is invalid" in str(e)
NeedsReconnect(kind) ==
    /\ ErrClass(kind) = "MemoryAccessError"
    /\ Contains(ErrMsg(kind), <<"Handle", "is", "invalid">>)

\* --------------------------------------------------------- read_memory
RdIdle == [active |-> FALSE, address |-> I(0), data_type |-> c_int32, retries |-> 0,
           use_cache |-> FALSE, i |-> 0, last_error |-> "None", current_time |-> 0,
           value |-> None, in_retry |-> FALSE]

RdFrame(a, ty, n, uc) ==
    [RdIdle EXCEPT !.active = TRUE, !.address = a, !.data_type = ty, !.retries = n,
                   !.use_cache = uc]

\* cache_key = (address, str(data_type))
cache_key == <<rd.address, rd.data_type>>

\* (variant: the end of a region is excluded)
InBlockedRegion_OpenEnd(address, regions) ==
    \E r \in 1..Len(regions) :
        Leq(regions[r][1], address) /\ Less(address, regions[r][2])

\* lines 161-162: start <= address <= end for some region
InBlockedRegion(address, regions) ==
    \E r \in 1..Len(regions) :
        Leq(regions[r][1], address) /\ Leq(address, regions[r][2])

\* (variant: the cache is used whatever the flags say)
Caching_Always(enabled, use_cache) == TRUE

\* (variant: the age test is the wrong way round)
IsFresh_Reversed(key, current_time, cache, stamps) ==
    /\ key \in DOMAIN cache
    /\ current_time - (IF key \in DOMAIN stamps THEN stamps[key] ELSE 0) > cache_duration

\* lines 169-170: a cached entry younger than cache_duration
IsFresh(key, current_time, cache, stamps) ==
    /\ key \in DOMAIN cache
    /\ current_time - (IF key \in DOMAIN stamps THEN stamps[key] ELSE 0) < cache_duration

\* line 167: if self.cache_enabled and use_cache
Caching(enabled, use_cache) == enabled /\ use_cache

\* lines 505-508: keys whose timestamp is older than cache_timeout
old_keys(current_time, stamps) ==
    {k \in DOMAIN stamps : current_time - stamps[k] > cache_timeout}

\* line 177: 0 <= address < 2**64
AddressOk(address) == Leq(I(0), address) /\ Less(address, Pow2_64)

\* return or raise: the frame ends and the caller of read_memory goes on.
ReadEnd(kind, v) ==
    /\ result' = [op |-> "read", kind |-> kind, value |-> v]
    /\ rd' = RdIdle
    /\ Return("caller")

\* (variant: the generic error whatever was recorded)
ReadFail_Generic(last_error) == ReadEnd("Generic", None)

\* lines 222-227: raise last_error, or the generic MemoryAccessError
ReadFail(last_error) ==
    ReadEnd(IF last_error # "None" THEN last_error ELSE "Generic", None)

\* lines 176-182: the address test, then the first iteration of the loop
AfterCacheStage(frame) ==
    IF ~AddressOk(frame.address)
      THEN ReadEnd("InvalidAddress", None)
      ELSE IF frame.retries > 0
        THEN /\ rd' = [frame EXCEPT !.i = 0, !.in_retry = TRUE]
             /\ Goto("caller", "rd_rpm") /\ UNCHANGED <<stack, result>>
        ELSE ReadFail("None")

\* (variant: the blocked regions are looked at before the connection)
rd_conn_BlockedFirst ==
    /\ pc["caller"] = "rd_conn"
    /\ IF InBlockedRegion(rd.address, blocked_regions)
         THEN ReadEnd("Blocked", None) /\ UNCHANGED rs
         ELSE IF connected
           THEN Goto("caller", "rd_blocked") /\ UNCHANGED <<stack, callVars>>
           ELSE IF auto_reconnect
             THEN Call("caller", "tr_throttle", "rd_reconn") /\ UNCHANGED callVars
             ELSE ReadEnd("NotConnected", None) /\ UNCHANGED rs
    /\ hist' = [hist EXCEPT !.checks = Append(@, "conn")]
    /\ UNCHANGED <<envVars, cfgVars, connVars, cacheVars, monVars>>
    /\ UNCHANGED player

\* (variant: a reconnect is tried whatever the setting)
ShouldReconnect_Always(auto) == TRUE

\* line 153: if self.auto_reconnect
ShouldReconnect(auto) == auto

\* lines 152-158
rd_conn ==
    /\ pc["caller"] = "rd_conn"
    /\ IF connected
         THEN Goto("caller", "rd_blocked") /\ UNCHANGED <<stack, callVars>>
         ELSE IF ShouldReconnect(auto_reconnect)
           THEN Call("caller", "tr_throttle", "rd_reconn") /\ UNCHANGED callVars
           ELSE ReadEnd("NotConnected", None) /\ UNCHANGED rs
    /\ hist' = [hist EXCEPT !.checks = Append(@, "conn")]
    /\ UNCHANGED <<envVars, cfgVars, connVars, cacheVars, monVars>>
    /\ UNCHANGED player

\* after _try_reconnect(): lines 155-156 before the loop, 219-220 inside it
rd_reconn ==
    /\ pc["caller"] = "rd_reconn"
    /\ IF ~rd.in_retry
         THEN IF ~connected
                THEN ReadEnd("NotConnected", None)
                ELSE Goto("caller", "rd_blocked") /\ UNCHANGED <<stack, rd, result>>
         ELSE IF ~connected
                THEN ReadFail(rd.last_error)
                ELSE /\ rd' = [rd EXCEPT !.i = @ + 1]
                     /\ Goto("caller", "rd_rpm") /\ UNCHANGED <<stack, result>>
    /\ UNCHANGED <<envVars, cfgVars, connVars, cacheVars, monVars, rs, hist>>
    /\ UNCHANGED player

\* lines 161-163
rd_blocked ==
    /\ pc["caller"] = "rd_blocked"
    /\ IF InBlockedRegion(rd.address, blocked_regions)
         THEN ReadEnd("Blocked", None)
         ELSE Goto("caller", "rd_cache") /\ UNCHANGED <<stack, rd, result>>
    /\ hist' = [hist EXCEPT !.checks = Append(@, "blocked")]
    /\ UNCHANGED <<envVars, cfgVars, connVars, cacheVars, monVars, rs>>
    /\ UNCHANGED player

\* lines 166-170 (and 176-182 when the call does not use the cache)
rd_cache ==
    /\ pc["caller"] = "rd_cache"
    /\ IF Caching(cache_enabled, rd.use_cache)
         THEN /\ rd' = [rd EXCEPT !.current_time = now]
              /\ Goto("caller", IF IsFresh(cache_key, now, memory_cache, cache_timestamp)
                                  THEN "rd_hit" ELSE "rd_purge")
              /\ LET recent == /\ cache_key \in DOMAIN hist.lastOk
                                /\ now - hist.lastOk[cache_key].ts < cache_duration
                 IN  hist' = [hist EXCEPT
                                !.checks = Append(@, "cache"),
                                !.fresh = recent,
                                !.expect = IF recent THEN hist.lastOk[cache_key].value
                                           ELSE None]
              /\ UNCHANGED <<stack, result>>
         ELSE /\ AfterCacheStage(rd)
              /\ hist' = [hist EXCEPT !.checks = Append(@, "addr")]
    /\ UNCHANGED <<envVars, cfgVars, connVars, cacheVars, monVars, rs>>
    /\ UNCHANGED player

\* line 171: return self.memory_cache[cache_key]
rd_hit ==
    /\ pc["caller"] = "rd_hit"
    /\ IF cache_key \in DOMAIN memory_cache
         THEN ReadEnd("value", memory_cache[cache_key])
         ELSE ReadEnd("KeyError", None)
    /\ hist' = [hist EXCEPT !.fromCache = TRUE,
                            !.hitStale = old_keys(rd.current_time, cache_timestamp)]
    /\ UNCHANGED <<envVars, cfgVars, connVars, cacheVars, monVars, rs>>
    /\ UNCHANGED player

\* line 174: _clear_old_cache_entries(current_time), then lines 176-182
rd_purge ==
    /\ pc["caller"] = "rd_purge"
    /\ LET old == old_keys(rd.current_time, cache_timestamp) IN
          /\ memory_cache' = MapDrop(memory_cache, old)
          /\ cache_timestamp' = MapDrop(cache_timestamp, old)
          /\ hist' = [hist EXCEPT !.cacheSrc = MapDrop(@, old),
                                  !.checks = Append(@, "addr")]
    /\ AfterCacheStage(rd)
    /\ UNCHANGED <<envVars, cfgVars, connVars, monVars, rs>>
    /\ UNCHANGED player

\* (variant: one attempt more than asked for)
AfterFailedAttempt_OneMore(kind) ==
    IF rd.i < rd.retries
      THEN /\ rd' = [rd EXCEPT !.last_error = kind, !.i = @ + 1]
           /\ UNCHANGED <<pc, stack, result>>
      ELSE ReadEnd(kind, None)

\* lines 210-220 for the error `kind` of attempt rd.i
AfterFailedAttempt(kind) ==
    IF rd.i < rd.retries - 1
      THEN IF NeedsReconnect(kind)
             THEN /\ rd' = [rd EXCEPT !.last_error = kind]
                  /\ Call("caller", "tr_throttle", "rd_reconn")
                  /\ UNCHANGED result
             ELSE /\ rd' = [rd EXCEPT !.last_error = kind, !.i = @ + 1]
                  /\ UNCHANGED <<pc, stack, result>>
      ELSE ReadFail(kind)

\* ctypes.sizeof(buffer), bytes
SizeOf(ty) == IF ty = c_uint64 THEN 8 ELSE 4

\* (variant: the byte count is not looked at)
FullRead_Any(read, size) == TRUE

\* line 199: read.value != ctypes.sizeof(buffer) raises
FullRead(read, size) == read = size

\* lines 203-208 for the value v left in the buffer
AttemptSucceeds(v) ==
    IF Caching(cache_enabled, rd.use_cache)
      THEN /\ rd' = [rd EXCEPT !.value = v]
           /\ Goto("caller", "rd_store1") /\ UNCHANGED <<stack, result>>
      ELSE ReadEnd("value", v)

\* history of one attempt: `kind` is how the attempt ended, `short` whether
\* the device returned fewer bytes than asked for
RpmHist(kind, short) ==
    hist' = [hist EXCEPT
               !.devReads = @ + (IF rd.data_type # "None" THEN 1 ELSE 0),
               !.rpmHandle = IF rd.data_type = "None" THEN @
                             ELSE IF handle = 0 THEN "null"
                             ELSE IF HandleOpen(handle) THEN "open" ELSE "closed",
               !.valSrc = IF HandleOpen(handle) THEN osHandle[handle] ELSE 0,
               !.envOk = @ /\ faults' = faults,
               !.checks = IF hist.devReads = 0 THEN Append(@, "device") ELSE @,
               !.lastShort = short,
               !.shortReads = @ + (IF short THEN 1 ELSE 0),
               !.fails = @ + (IF kind = "value" THEN 0 ELSE 1),
               !.lastErr = IF kind = "value" THEN @ ELSE kind,
               !.invalidFails = @ + (IF kind = "ReadFailed6" THEN 1 ELSE 0),
               !.escalations = @ + (IF pc'["caller"] = "tr_throttle" THEN 1 ELSE 0),
               !.abandon = @ \/ kind = "ReadFailed6",
               !.lateReads = @ + (IF hist.abandon /\ rd.data_type # "None" THEN 1 ELSE 0)]

\* lines 185-201: buffer = data_type(); ReadProcessMemory(self.handle, ...);
\* the test of the byte count
rd_rpm ==
    /\ pc["caller"] = "rd_rpm"
    /\ \/ /\ rd.data_type = "None"
          /\ AfterFailedAttempt("TypeError")
          /\ UNCHANGED faults
          /\ RpmHist("TypeError", FALSE)
       \/ /\ rd.data_type # "None" /\ HandleLive(handle) /\ rd.address \in DOMAIN mem
          /\ AttemptSucceeds(ReadAs(mem[rd.address], rd.data_type))
          /\ UNCHANGED faults
          /\ RpmHist("value", FALSE)
       \/ /\ rd.data_type # "None" /\ HandleLive(handle) /\ rd.address \in DOMAIN mem
          /\ faults > 0
          /\ faults' = faults - 1
          /\ \/ /\ AfterFailedAttempt("ReadFailed299")
                /\ RpmHist("ReadFailed299", FALSE)
             \/ \E n \in {0, SizeOf(rd.data_type) - 1} :
                   IF FullRead(n, SizeOf(rd.data_type))
                     THEN /\ AttemptSucceeds(ReadAs(mem[rd.address], rd.data_type))
                          /\ RpmHist("value", TRUE)
                     ELSE /\ AfterFailedAttempt("PartialRead")
                          /\ RpmHist("PartialRead", TRUE)
       \/ /\ rd.data_type # "None" /\ HandleLive(handle) /\ rd.address \notin DOMAIN mem
          /\ AfterFailedAttempt("ReadFailed299")
          /\ UNCHANGED faults
          /\ RpmHist("ReadFailed299", FALSE)
       \/ /\ rd.data_type # "None" /\ HandleOpen(handle) /\ ~HandleLive(handle)
          /\ AfterFailedAttempt("ReadFailed299")
          /\ UNCHANGED faults
          /\ RpmHist("ReadFailed299", FALSE)
       \/ /\ rd.data_type # "None" /\ ~HandleOpen(handle)
          /\ AfterFailedAttempt("ReadFailed6")
          /\ UNCHANGED faults
          /\ RpmHist("ReadFailed6", FALSE)
    /\ UNCHANGED <<now, grid, proc, procWow64, nextPid, osHandle, mem, cfgVars,
                   connVars, cacheVars, monVars, rs>>
    /\ UNCHANGED player

\* line 205: self.memory_cache[cache_key] = buffer.value
rd_store1 ==
    /\ pc["caller"] = "rd_store1"
    /\ memory_cache' = MapPut(memory_cache, cache_key, rd.value)
    /\ hist' = [hist EXCEPT !.cacheSrc = MapPut(@, cache_key, hist.valSrc)]
    /\ Goto("caller", "rd_store2")
    /\ UNCHANGED <<envVars, cfgVars, connVars, cache_timestamp, monVars, callVars, stack>>
    /\ UNCHANGED player

\* lines 206-208: self.cache_timestamp[cache_key] = time.time(); return
rd_store2 ==
    /\ pc["caller"] = "rd_store2"
    /\ cache_timestamp' = MapPut(cache_timestamp, cache_key, now)
    /\ hist' = [hist EXCEPT !.lastOk = MapPut(@, cache_key, [value |-> rd.value, ts |-> now])]
    /\ ReadEnd("value", rd.value)
    /\ UNCHANGED <<envVars, cfgVars, connVars, memory_cache, monVars, rs>>
    /\ UNCHANGED player

\* ------------------------------------------------ resolve_pointer_chain
default_retries == 3

RsIdle == [active |-> FALSE, base_address |-> I(0), offsets |-> <<>>, i |-> 1,
           addr |-> I(0)]

\* (variant: the module base is left out)
StartAddress_NoBase(base, base_address) == base_address

\* line 244: self.base_addr + base_address if self.base_addr is not None
\* else base_address
StartAddress(base, base_address) ==
    IF base # None THEN Add(base, base_address) ELSE base_address

\* (variant: no range test)
PointerOk_Any(addr) == TRUE

\* line 260: 0 <= addr < 2**48
PointerOk(addr) == Leq(I(0), addr) /\ Less(addr, Pow2_48)

ResolveEnd(kind, v) ==
    /\ result' = [op |-> "resolve", kind |-> kind, value |-> v]
    /\ rs' = RsIdle
    /\ Return("caller")

\* lines 248-251: next offset, ptr = self.read_memory(addr, self.ptr_type);
\* line 263 when the offsets are used up
rs_loop ==
    /\ pc["caller"] = "rs_loop"
    /\ IF rs.i > Len(rs.offsets)
         THEN ResolveEnd("value", rs.addr) /\ UNCHANGED <<rd, hist>>
         ELSE /\ rd' = RdFrame(rs.addr, ptr_type, default_retries, TRUE)
              /\ Call("caller", "rd_conn", "rs_after")
              /\ hist' = [hist EXCEPT !.readLog = Append(@, rs.addr)]
              /\ UNCHANGED <<rs, result>>
    /\ UNCHANGED <<envVars, cfgVars, connVars, cacheVars, monVars>>
    /\ UNCHANGED player

\* lines 252-261: the except clause, addr = ptr + offset, the range test
rs_after ==
    /\ pc["caller"] = "rs_after"
    /\ IF result.kind = "value"
         THEN LET addr == Add(result.value, rs.offsets[rs.i]) IN
                IF PointerOk(addr)
                  THEN /\ rs' = [rs EXCEPT !.addr = addr, !.i = @ + 1]
                       /\ Goto("caller", "rs_loop")
                       /\ UNCHANGED <<stack, result>>
                  ELSE ResolveEnd("InvalidAddress", None)
         ELSE IF ErrClass(result.kind) = "MemoryAccessError"
                THEN ResolveEnd("ResolveFailed", I(rs.i))
                ELSE ResolveEnd(result.kind, None)
    /\ hist' = [hist EXCEPT !.failedReads = @ + (IF result.kind = "value" THEN 0 ELSE 1)]
    /\ UNCHANGED <<envVars, cfgVars, connVars, cacheVars, monVars, rd>>
    /\ UNCHANGED player

\* ------------------------------------------------------------ the caller
CallHist(a, ch) ==
    [hist EXCEPT !.lastShort = FALSE, !.shortReads = 0, !.fails = 0, !.lastErr = "None",
                 !.invalidFails = 0, !.escalations = 0, !.abandon = FALSE,
                 !.lateReads = 0, !.tryCalls = 0, !.checks = <<>>,
                 !.hitStale = {},
                 !.address = a, !.chain = ch, !.regions = blocked_regions,
                 !.live = connected, !.expect = None, !.devReads = 0,
                 !.rpmHandle = "none", !.valSrc = 0, !.flipped = FALSE,
                 !.fresh = FALSE, !.fromCache = FALSE, !.callPasses = 0,
                 !.readLog = <<>>, !.envOk = TRUE, !.startBase = base_addr,
                 !.failedReads = 0,
                 !.due = /\ auto_reconnect /\ ~connected /\ proc # 0
                         /\ ~Throttled(now, last_connect_attempt)]

\* mm.read_memory(address, data_type, retries, delay, use_cache)
StartRead(a, ty, n, uc) ==
    /\ pc["caller"] = "idle"
    /\ rd' = RdFrame(a, ty, n, uc)
    /\ Call("caller", "rd_conn", "idle")
    /\ result' = [op |-> "none", kind |-> "none", value |-> None]
    /\ hist' = [CallHist(a, None) EXCEPT !.retries = n]
    /\ UNCHANGED <<envVars, cfgVars, connVars, cacheVars, monVars, rs>>
    /\ UNCHANGED player

\* mm.resolve_pointer_chain(base_address, offsets); line 244
StartResolve(b, offs) ==
    /\ pc["caller"] = "idle"
    /\ rs' = [active |-> TRUE, base_address |-> b, offsets |-> offs, i |-> 1,
              addr |-> StartAddress(base_addr, b)]
    /\ Call("caller", "rs_loop", "idle")
    /\ result' = [op |-> "none", kind |-> "none", value |-> None]
    /\ hist' = CallHist(None, [base_address |-> b, offsets |-> offs])
    /\ UNCHANGED <<envVars, cfgVars, connVars, cacheVars, monVars, rd>>
    /\ UNCHANGED player

\* mm.blocked_regions = regions (line 73 leaves the list empty)
SetBlockedRegions(regions) ==
    /\ pc["caller"] = "idle"
    /\ blocked_regions = <<>>
    /\ blocked_regions' = regions
    /\ UNCHANGED <<envVars, auto_reconnect, cache_enabled, connVars, cacheVars,
                   monVars, callVars, pc, stack, hist>>
    /\ UNCHANGED player

\* ------------------------------------------------------- the environment
\* The clock moves to the next time it is looked at.
Tick ==
    /\ \E t \in grid : t > now
    /\ now' = CHOOSE t \in grid : t > now /\ \A u \in grid : u > now => t <= u
    /\ UNCHANGED <<grid, faults, proc, procWow64, nextPid, osHandle, mem, cfgVars,
                   connVars, cacheVars, monVars, callVars, pc, stack, hist>>
    /\ UNCHANGED player

\* The target process exits; handles open on it stay open.
ProcessExit ==
    /\ proc # 0
    /\ proc' = 0
    /\ hist' = [hist EXCEPT !.envOk = FALSE]
    /\ UNCHANGED <<now, grid, faults, procWow64, nextPid, osHandle, mem, cfgVars,
                   connVars, cacheVars, monVars, callVars, pc, stack>>
    /\ UNCHANGED player

\* The target executable is started again.
ProcessStart ==
    /\ proc = 0
    /\ nextPid <= MaxPid
    /\ proc' = nextPid
    /\ nextPid' = nextPid + 1
    /\ UNCHANGED <<now, grid, faults, procWow64, osHandle, mem, cfgVars, connVars,
                   cacheVars, monVars, callVars, pc, stack, hist>>
    /\ UNCHANGED player

\* The target writes its memory.
DeviceWrite(v) ==
    /\ \E a \in DOMAIN mem : mem[a] # v
    /\ mem' = [a \in DOMAIN mem |-> v]
    /\ UNCHANGED <<now, grid, faults, proc, procWow64, nextPid, osHandle, cfgVars,
                   connVars, cacheVars, monVars, callVars, pc, stack, hist>>
    /\ UNCHANGED player

\* --------------------------------------------------------- initial states
\* no PathPlayer has been created
NoPlayer == [pc |-> "none"]

HistInit ==
    [devReads |-> 0, rpmHandle |-> "none", valSrc |-> 0, flipped |-> FALSE,
     cacheSrc |-> EmptyMap, lastOk |-> EmptyMap, fresh |-> FALSE, fromCache |-> FALSE,
     passAt |-> [t \in Threads |-> -1], prevPass |-> -1,
     callPasses |-> 0, readLog |-> <<>>, envOk |-> TRUE, due |-> FALSE,
     startBase |-> None, failedReads |-> 0, address |-> None, chain |-> None,
     regions |-> <<>>, live |-> FALSE, expect |-> None,
     retries |-> 0, lastShort |-> FALSE, shortReads |-> 0, fails |-> 0,
     lastErr |-> "None", invalidFails |-> 0, escalations |-> 0, abandon |-> FALSE,
     lateReads |-> 0, tryCalls |-> 0, checks |-> <<>>,
     connErr |-> [t \in Threads |-> "None"], modinfo |-> [t \in Threads |-> "none"],
     inCleanup |-> FALSE, cleanups |-> 0, closeCalls |-> 0, quiet |-> FALSE,
     handleAtStart |-> 0, snap |-> None, prevSnap |-> None,
     psutil |-> None, track |-> FALSE, monLog |-> <<>>, cacheBefore |-> None,
     monErrs |-> 0, lateIters |-> 0, hitStale |-> {}, inits |-> 0,
     stopDone |-> FALSE, pauseAfterStop |-> FALSE, plLate |-> FALSE, plActs |-> 0, unhooks |-> 0,
     memCleanups |-> 0, stepsIn |-> None, addrIn |-> None]

\* __init__ (lines 50-83) with the given arguments, initialize() having run
\* _connect() while the target was running (found) or not.
Constructed(auto, cache, found, modfound, wow, memory, times, nfaults) ==
    /\ now = T0 /\ grid = times
    /\ faults = nfaults
    /\ proc = (IF found THEN 1 ELSE 0) /\ nextPid = (IF found THEN 2 ELSE 1)
    /\ procWow64 = wow
    /\ osHandle = [h \in 1..MaxHandle |-> IF found /\ h = 1 THEN 1 ELSE 0]
    /\ mem = memory
    /\ auto_reconnect = auto /\ cache_enabled = cache /\ blocked_regions = <<>>
    /\ connected = found
    /\ pid = (IF found THEN 1 ELSE 0)
    /\ handle = (IF found THEN 1 ELSE 0)
    /\ base_addr = (IF found /\ modfound THEN ModBase(1) ELSE None)
    /\ module_size = (IF found /\ modfound THEN ModSize(1) ELSE None)
    /\ is_wow64 = (found /\ wow)
    /\ ptr_type = (IF ~found THEN "None" ELSE IF wow THEN c_uint32 ELSE c_uint64)
    /\ last_connect_attempt = T0
    /\ memory_cache = EmptyMap /\ cache_timestamp = EmptyMap
    /\ stop_monitoring = FALSE
    \* initialize(), lines 103-109: the thread is started after a successful
    \* _connect() only (an exception of _connect skips line 106)
    /\ monitor_thread = (auto /\ found)
    /\ pc = [t \in Threads |->
               IF t = "caller" THEN "idle" ELSE IF auto /\ found THEN "m_check" ELSE "m_none"]
    /\ stack = [t \in Threads |-> <<>>]
    /\ rd = RdIdle /\ rs = RsIdle /\ wake = 0
    /\ result = [op |-> "none", kind |-> "none", value |-> None]
    /\ hist = HistInit
    /\ player = NoPlayer

\* ------------------------------------------------ concurrent specification
\* One caller thread reading one address while the monitor runs.
Addr1 == I(31)
Vals == {I(1), I(2)}
Times == {T0 + k * reconnect_interval : k \in 0..MaxPeriods}

Init == Constructed(TRUE, TRUE, TRUE, TRUE, TRUE, [a \in {Addr1} |-> I(1)], Times, 0)

ThreadStep(t) ==
    \/ ch_check(t) \/ ch_close(t) \/ ch_none(t)
    \/ tr_throttle(t)
    \/ cn_stamp(t) \/ cn_find(t) \/ cn_notfound(t) \/ cn_open(t) \/ cn_arch(t)
    \/ cn_modinfo(t) \/ cn_clear1(t) \/ cn_clear2(t) \/ cn_live(t) \/ cn_failed(t)

ReadStep ==
    \/ rd_conn \/ rd_reconn \/ rd_blocked \/ rd_cache \/ rd_hit \/ rd_purge
    \/ rd_rpm \/ rd_store1 \/ rd_store2

MonitorStep == m_check \/ m_flip \/ m_sleep \/ m_wait

Next ==
    \/ StartRead(Addr1, c_int32, MaxRetries, TRUE)
    \/ ReadStep
    \/ \E t \in Threads : ThreadStep(t)
    \/ MonitorStep
    \/ Tick \/ ProcessExit \/ ProcessStart
    \/ \E v \in Vals : DeviceWrite(v)

Spec == Init /\ [][Next]_vars

\* ------------------------------------------------ sequential specification
\* The caller alone (no monitor thread: auto_reconnect off, or the first
\* _connect() failed), reading two addresses with and without the cache.
SeqAddrs == {I(41), I(42)}
SeqTimes ==
    {T0, T0 + 50, T0 + cache_duration} \cup
    {T0 + k * reconnect_interval : k \in 1..(MaxPeriods + 1)}

InitSeq ==
    \E auto \in BOOLEAN, found \in BOOLEAN :
        /\ ~(auto /\ found)
        /\ Constructed(auto, TRUE, found, TRUE, TRUE, [a \in SeqAddrs |-> I(1)],
                       SeqTimes, MaxFaults)

NextSeq ==
    \/ \E a \in SeqAddrs, uc \in BOOLEAN : StartRead(a, c_int32, MaxRetries, uc)
    \/ ReadStep
    \/ ThreadStep("caller")
    \/ Tick \/ ProcessExit \/ ProcessStart
    \/ \E v \in Vals : DeviceWrite(v)

SpecSeq == InitSeq /\ [][NextSeq]_vars

\* ------------------------------------------- blocked-region specification
\* The caller alone, reading at and around a blocked region that is set
\* before or after the cache has been filled.
BlockedAddrs == {I(40), I(41), I(42)}
BlockedConfig == << <<I(40), I(41)>> >>
BlockedTimes == {T0, T0 + 50, T0 + MaxPeriods * reconnect_interval}

InitBlocked ==
    \E auto \in BOOLEAN, found \in BOOLEAN :
        /\ ~(auto /\ found)
        /\ Constructed(auto, TRUE, found, TRUE, TRUE, [a \in BlockedAddrs |-> I(1)],
                       BlockedTimes, 0)

NextBlocked ==
    \/ \E a \in BlockedAddrs, uc \in BOOLEAN : StartRead(a, c_int32, 1, uc)
    \/ SetBlockedRegions(BlockedConfig)
    \/ ReadStep
    \/ ThreadStep("caller")
    \/ Tick \/ ProcessExit \/ ProcessStart

SpecBlocked == InitBlocked /\ [][NextBlocked]_vars

\* ----------------------------------------------- pointer-chain specification
\* The caller alone resolving chains over a fixed memory image.
ChainBase == I(4096)
ChainOffsets == {I(16), I(32), I(-16)}
ChainMem ==
    (Add(ModBase(1), I(4096)) :> I(8192)) @@ (I(4096) :> I(8192)) @@
    (I(8208) :> I(12288)) @@ (I(8224) :> Pow2_48) @@ (I(12320) :> I(7))
ChainTimes == {T0, T0 + cache_duration, T0 + reconnect_interval}
Chains == UNION {[1..k -> ChainOffsets] : k \in 0..MaxChainLen}

InitChain ==
    \E auto \in BOOLEAN, found \in BOOLEAN, modfound \in BOOLEAN, wow \in BOOLEAN :
        /\ ~(auto /\ found)
        /\ found \/ modfound
        /\ Constructed(auto, TRUE, found, modfound, wow, ChainMem, ChainTimes, 0)

NextChain ==
    \/ \E offs \in Chains : StartResolve(ChainBase, offs)
    \/ rs_loop \/ rs_after
    \/ ReadStep
    \/ ThreadStep("caller")
    \/ Tick \/ ProcessExit \/ ProcessStart

SpecChain == InitChain /\ [][NextChain]_vars

\* ------------------------------------------------------- retry specification
\* The caller alone reading one address with every retries argument, the
\* device failing or returning short; the caller's steps are taken fairly.
RetryAddr == I(41)
RetryTimes == {T0, T0 + MaxPeriods * reconnect_interval}

InitRetry ==
    \E auto \in BOOLEAN, found \in BOOLEAN :
        /\ ~(auto /\ found)
        /\ Constructed(auto, TRUE, found, TRUE, TRUE, [a \in {RetryAddr} |-> I(1)],
                       RetryTimes, MaxFaults)

NextRetry ==
    \/ \E n \in 0..MaxRetries, uc \in BOOLEAN : StartRead(RetryAddr, c_int32, n, uc)
    \/ ReadStep
    \/ ThreadStep("caller")
    \/ Tick \/ ProcessExit \/ ProcessStart

SpecRetry ==
    InitRetry /\ [][NextRetry]_vars /\ WF_vars(ReadStep \/ ThreadStep("caller"))

\* ------------------------------------------------- check-order specification
\* The caller alone reading valid, invalid, blocked and cached addresses of a
\* 32-bit or a 64-bit target.
OrderAddrs == {I(-1), I(40), I(42), Pow2_32, Pow2_64}
OrderConfig == << <<I(-1), I(-1)>>, <<I(40), I(40)>> >>
OrderTimes == {T0, T0 + cache_duration, T0 + MaxPeriods * reconnect_interval}

InitOrder ==
    \E auto \in BOOLEAN, found \in BOOLEAN, wow \in BOOLEAN :
        /\ ~(auto /\ found)
        /\ Constructed(auto, TRUE, found, TRUE, wow, [a \in {I(40), I(42)} |-> I(1)],
                       OrderTimes, 0)

NextOrder ==
    \/ \E a \in OrderAddrs, uc \in BOOLEAN : StartRead(a, c_int32, 1, uc)
    \/ SetBlockedRegions(OrderConfig)
    \/ ReadStep
    \/ ThreadStep("caller")
    \/ Tick \/ ProcessExit \/ ProcessStart

SpecOrder == InitOrder /\ [][NextOrder]_vars

\* ------------------------------------------------ is_process_running
\* str.lower() on names written as sequences of letters
LowerChar(c) ==
    CASE c = "A" -> "a" [] c = "B" -> "b" [] c = "G" -> "g" [] OTHER -> c
Lower(name) == [k \in DOMAIN name |-> LowerChar(name[k])]

\* what psutil raises
PsutilErrors == {"NoSuchProcess", "AccessDenied", "ZombieProcess"}

\* (variant: only NoSuchProcess is caught)
Handled_GoneOnly(err) == err = "NoSuchProcess"

\* line 279: except (psutil.NoSuchProcess, psutil.AccessDenied, psutil.ZombieProcess)
Handled(err) == err \in {"NoSuchProcess", "AccessDenied", "ZombieProcess"}

\* line 278: process.name().lower() == self.module_name.lower()
NameMatches(name, target) == Lower(name) = Lower(target)

\* lines 272-280, given what psutil.Process(pid), is_running() and name()
\* answer: lookup and named are "ok" or the error the call raises
ProcessRunningCheck(p, lookup, running, named, name, target) ==
    LET ret(v) == [op |-> "is_running", kind |-> "value", value |-> v]
        exc(e) == IF Handled(e) THEN ret(FALSE)
                  ELSE [op |-> "is_running", kind |-> e, value |-> None]
    IN  IF p = 0 THEN ret(FALSE)
        ELSE IF lookup \in PsutilErrors THEN exc(lookup)
        ELSE IF ~running THEN ret(FALSE)
        ELSE IF named \in PsutilErrors THEN exc(named)
        ELSE ret(NameMatches(name, target))

\* self.module_name
module_name == <<"G", "a">>
ProcessNames == {<<"G", "a">>, <<"g", "A">>, <<"g", "a">>, <<"g", "b">>, <<"G">>}

\* mm.is_process_running()
RunningCheck(lookup, running, named, name) ==
    /\ pc["caller"] = "idle"
    /\ result' = ProcessRunningCheck(pid, lookup, running, named, name, module_name)
    /\ hist' = [hist EXCEPT !.psutil = [lookup |-> lookup, running |-> running,
                                        named |-> named, name |-> name]]
    /\ UNCHANGED <<envVars, cfgVars, connVars, cacheVars, monVars, rd, rs, pc, stack>>
    /\ UNCHANGED player

\* ------------------------------------------- is_process_running specification
\* is_process_running() called on a manager that connected or not, for every
\* answer of psutil.
RunningTimes == {T0 + k * reconnect_interval : k \in 0..MaxPeriods}

InitRunning ==
    \E found \in BOOLEAN :
        Constructed(FALSE, TRUE, found, TRUE, TRUE, EmptyMap, RunningTimes, 0)

NextRunning ==
    \/ \E lookup \in {"ok", "NoSuchProcess"}, running \in BOOLEAN,
          named \in {"ok"} \cup PsutilErrors, name \in ProcessNames :
            RunningCheck(lookup, running, named, name)
    \/ Tick \/ ProcessExit \/ ProcessStart

SpecRunning == InitRunning /\ [][NextRunning]_vars

\* ------------------------------------------------------ cleanup
MonitorAlive == pc["monitor"] \notin {"m_none", "m_exit"}
\* the monitor is between two statements of the body of an iteration
MonitorBusy == pc["monitor"] \notin {"m_none", "m_exit", "m_check", "m_sleep", "m_wait"}

\* the fields of the object and the handles this process holds
ObjectState ==
    [connected |-> connected, pid |-> pid, handle |-> handle, base_addr |-> base_addr,
     module_size |-> module_size, is_wow64 |-> is_wow64, ptr_type |-> ptr_type,
     last_connect_attempt |-> last_connect_attempt, memory_cache |-> memory_cache,
     cache_timestamp |-> cache_timestamp, stop_monitoring |-> stop_monitoring,
     monitor_thread |-> monitor_thread, osHandle |-> osHandle]

\* mm.cleanup(), called at most `times` times
StartCleanup(times) ==
    /\ pc["caller"] = "idle"
    /\ hist.cleanups < times
    /\ Goto("caller", "cl_stop")
    /\ result' = [op |-> "none", kind |-> "none", value |-> None]
    /\ hist' = [hist EXCEPT !.inCleanup = TRUE, !.closeCalls = 0, !.quiet = FALSE,
                            !.handleAtStart = 0, !.prevSnap = hist.snap]
    /\ UNCHANGED <<envVars, cfgVars, connVars, cacheVars, monVars, rd, rs, stack>>
    /\ UNCHANGED player

\* lines 120-121: if self.monitor_thread: self.stop_monitoring = True;
\* line 126 otherwise
cl_stop ==
    /\ pc["caller"] = "cl_stop"
    /\ IF monitor_thread
         THEN /\ stop_monitoring' = TRUE
              /\ Goto("caller", "cl_join") /\ UNCHANGED <<stack, hist>>
         ELSE /\ Call("caller", "ch_check", "cl_clear1")
              /\ hist' = [hist EXCEPT !.quiet = ~MonitorAlive, !.handleAtStart = handle]
              /\ UNCHANGED stop_monitoring
    /\ UNCHANGED <<envVars, cfgVars, connVars, cacheVars, monitor_thread, wake,
                   callVars>>
    /\ UNCHANGED player

\* lines 122-126: join(timeout=1.0) returns when the thread has ended, or
\* after a second while the thread is still inside the body of an iteration
\* (a pause ends 0.1 s after the flag is set); then monitor_thread = None and
\* _close_handle()
cl_join ==
    /\ pc["caller"] = "cl_join"
    /\ pc["monitor"] = "m_exit" \/ MonitorBusy
    /\ monitor_thread' = FALSE
    /\ Call("caller", "ch_check", "cl_clear1")
    /\ hist' = [hist EXCEPT !.quiet = ~MonitorAlive, !.handleAtStart = handle]
    /\ UNCHANGED <<envVars, cfgVars, connVars, cacheVars, stop_monitoring, wake,
                   callVars>>
    /\ UNCHANGED player

\* line 129: self.memory_cache.clear()
cl_clear1 ==
    /\ pc["caller"] = "cl_clear1"
    /\ memory_cache' = EmptyMap
    /\ Goto("caller", "cl_clear2")
    /\ UNCHANGED <<envVars, cfgVars, connVars, cache_timestamp, monVars, callVars,
                   stack, hist>>
    /\ UNCHANGED player

\* line 130: self.cache_timestamp.clear(); cleanup returns
cl_clear2 ==
    /\ pc["caller"] = "cl_clear2"
    /\ cache_timestamp' = EmptyMap
    /\ Goto("caller", "idle")
    /\ result' = [op |-> "cleanup", kind |-> "value", value |-> None]
    /\ hist' = [hist EXCEPT !.inCleanup = FALSE, !.cleanups = @ + 1,
                            !.snap = IF hist.quiet
                                       THEN [ObjectState EXCEPT !.cache_timestamp = EmptyMap]
                                       ELSE None]
    /\ UNCHANGED <<envVars, cfgVars, connVars, memory_cache, monVars, rd, rs, stack>>
    /\ UNCHANGED player

CleanupStep == cl_stop \/ cl_join \/ cl_clear1 \/ cl_clear2

\* ------------------------------------------------ cleanup specification
\* The caller calls cleanup() up to MaxCleanups times, on a manager that
\* connected or not, with or without the monitor running.
CleanupTimes == {T0 + k * reconnect_interval : k \in 0..MaxPeriods}

InitCleanup ==
    \E auto \in BOOLEAN, found \in BOOLEAN :
        Constructed(auto, TRUE, found, TRUE, TRUE, EmptyMap, CleanupTimes, 0)

NextCleanup ==
    \/ StartCleanup(MaxCleanups)
    \/ CleanupStep
    \/ \E t \in Threads : ThreadStep(t)
    \/ MonitorStep
    \/ Tick \/ ProcessExit \/ ProcessStart

SpecCleanup ==
    InitCleanup /\ [][NextCleanup]_vars
    /\ WF_vars(MonitorStep \/ ThreadStep("monitor"))

\* ------------------------------------------------ monitor specification
\* The monitor thread alone on a manager with auto_reconnect on, the target
\* exiting and starting again, the OS refusing calls; time never stops.
MonKey == <<I(31), c_int32>>
MonTimes == {T0 + k * reconnect_interval : k \in 0..(MaxPeriods + 1)}
Horizon == T0 + (MaxPeriods + 1) * reconnect_interval
\* older than every window the code compares an age with
Oldest == T0 - 2 * reconnect_interval

\* the state after a read at T0 on a manager that connected
MonitorRunning(cache, times, nfaults) ==
    /\ now = T0 /\ grid = times
    /\ faults = nfaults
    /\ proc = 1 /\ nextPid = 2
    /\ procWow64 = TRUE
    /\ osHandle = [h \in 1..MaxHandle |-> IF h = 1 THEN 1 ELSE 0]
    /\ mem = [a \in {I(31)} |-> I(1)]
    /\ auto_reconnect = TRUE /\ cache_enabled = cache /\ blocked_regions = <<>>
    /\ connected = TRUE /\ pid = 1 /\ handle = 1
    /\ base_addr = ModBase(1) /\ module_size = ModSize(1)
    /\ is_wow64 = TRUE /\ ptr_type = c_uint32
    /\ last_connect_attempt = T0
    /\ memory_cache = (IF cache THEN MapPut(EmptyMap, MonKey, I(1)) ELSE EmptyMap)
    /\ cache_timestamp = (IF cache THEN MapPut(EmptyMap, MonKey, T0) ELSE EmptyMap)
    /\ stop_monitoring = FALSE /\ monitor_thread = TRUE
    /\ pc = [t \in Threads |-> IF t = "caller" THEN "idle" ELSE "m_check"]
    /\ stack = [t \in Threads |-> <<>>]
    /\ rd = RdIdle /\ rs = RsIdle /\ wake = 0
    /\ result = [op |-> "read", kind |-> "value", value |-> I(1)]
    /\ hist = [HistInit EXCEPT !.track = TRUE]
    /\ player = NoPlayer

InitMon == MonitorRunning(TRUE, MonTimes, MaxFaults)

\* The clock is read against stored times by differences only: at the last
\* time of the grid every stored time is moved one interval back (ages beyond
\* two intervals stay beyond every window), so that time goes on.
ShiftTime(x) == IF x - reconnect_interval < Oldest THEN Oldest ELSE x - reconnect_interval

ClockShift ==
    /\ now = Horizon
    /\ now' = ShiftTime(now)
    /\ last_connect_attempt' = ShiftTime(last_connect_attempt)
    /\ wake' = ShiftTime(wake)
    /\ cache_timestamp' = [k \in DOMAIN cache_timestamp |-> ShiftTime(cache_timestamp[k])]
    /\ hist' = [hist EXCEPT !.cacheBefore =
                    IF @ = None THEN None
                    ELSE <<@[1], [k \in DOMAIN @[2] |-> ShiftTime(@[2][k])]>>]
    /\ UNCHANGED <<grid, faults, proc, procWow64, nextPid, osHandle, mem, cfgVars,
                   connected, pid, handle, base_addr, module_size, is_wow64, ptr_type,
                   memory_cache, stop_monitoring, monitor_thread, callVars, pc, stack>>
    /\ UNCHANGED player

\* (variant: an error ends the thread)
MonitorCatches_Nothing(err) == FALSE

\* line 487: except Exception
MonitorCatches(err) == err \in {"OSError", "MemoryAccessError", "ProcessNotFoundError"}

\* line 478 when psutil raises an error that is_process_running does not
\* catch: lines 487-488 log it and the pause follows
m_check_err ==
    /\ pc["monitor"] = "m_check"
    /\ LoopGoesOn(stop_monitoring) /\ connected
    /\ faults > 0
    /\ faults' = faults - 1
    /\ Goto("monitor", IF MonitorCatches("OSError") THEN "m_sleep" ELSE "m_dead")
    /\ hist' = [hist EXCEPT !.monErrs = @ + 1]
    /\ UNCHANGED <<now, grid, proc, procWow64, nextPid, osHandle, mem, cfgVars, connVars,
                   cacheVars, monVars, callVars, stack>>
    /\ UNCHANGED player

NextMon ==
    \/ MonitorStep \/ m_check_err
    \/ ThreadStep("monitor")
    \/ Tick \/ ClockShift \/ ProcessExit \/ ProcessStart

SpecMon ==
    InitMon /\ [][NextMon]_vars
    /\ WF_vars(MonitorStep \/ m_check_err \/ ThreadStep("monitor"))
    /\ WF_vars(Tick \/ ClockShift)

\* ------------------------------------------------ stop specification
\* The monitor and the caller calling cleanup(), no call of the OS refused.
InitStop == MonitorRunning(TRUE, MonTimes, 0)

NextStop ==
    \/ MonitorStep
    \/ StartCleanup(1) \/ CleanupStep
    \/ \E t \in Threads : ThreadStep(t)
    \/ Tick \/ ClockShift \/ ProcessExit \/ ProcessStart

SpecStop ==
    InitStop /\ [][NextStop]_vars
    /\ WF_vars(MonitorStep \/ ThreadStep("monitor"))
    /\ WF_vars(Tick \/ ClockShift)

\* ------------------------------------------------ cache specification
\* The caller alone, on a manager created with or without the cache, reading
\* two addresses with and without use_cache, at times a cache_timeout apart.
CacheAddrs == {I(41), I(42)}
CacheTimes == {T0, T0 + cache_timeout, T0 + cache_timeout + 50}

InitCache ==
    \E auto \in BOOLEAN, cache \in BOOLEAN, found \in BOOLEAN :
        /\ ~(auto /\ found)
        /\ Constructed(auto, cache, found, TRUE, TRUE, [a \in CacheAddrs |-> I(1)],
                       CacheTimes, MaxFaults)

NextCache ==
    \/ \E a \in CacheAddrs, uc \in BOOLEAN : StartRead(a, c_int32, 1, uc)
    \/ ReadStep
    \/ ThreadStep("caller")
    \/ Tick \/ ProcessExit \/ ProcessStart

SpecCache == InitCache /\ [][NextCache]_vars

\* ------------------------------------------------ failing-step specification
\* The caller alone resolving chains whose first address is valid, negative
\* or blocked, on a target whose module base is not known, the device failing
\* or the target gone.
StepBases == {I(-8), I(4096)}
StepOffsets == {I(16)}
StepChains == UNION {[1..k -> StepOffsets] : k \in 1..MaxChainLen}
StepConfig == << <<I(8208), I(8208)>> >>
StepTimes == {T0, T0 + MaxPeriods * reconnect_interval}

InitStep ==
    \E auto \in BOOLEAN, found \in BOOLEAN :
        /\ ~(auto /\ found)
        /\ Constructed(auto, TRUE, found, FALSE, TRUE, ChainMem, StepTimes, MaxFaults)

NextStep ==
    \/ \E b \in StepBases, offs \in StepChains : StartResolve(b, offs)
    \/ SetBlockedRegions(StepConfig)
    \/ rs_loop \/ rs_after
    \/ ReadStep
    \/ ThreadStep("caller")
    \/ Tick \/ ProcessExit \/ ProcessStart

SpecStep == InitStep /\ [][NextStep]_vars

\* ------------------------------------------------ uncached-read specification
\* The caller reading the one cached address with and without use_cache, on a
\* manager created with or without the cache, while the monitor runs and the
\* target exits and starts again.
UncachedTimes == {T0, T0 + MaxPeriods * reconnect_interval}

InitUncached == \E cache \in BOOLEAN : MonitorRunning(cache, UncachedTimes, 0)

NextUncached ==
    \/ \E uc \in BOOLEAN : StartRead(I(31), c_int32, 1, uc)
    \/ ReadStep
    \/ \E t \in Threads : ThreadStep(t)
    \/ MonitorStep
    \/ Tick \/ ProcessExit \/ ProcessStart

SpecUncached == InitUncached /\ [][NextUncached]_vars

\* ------------------------------------------------ construction specification
\* get_memory_manager(name, False, auto, cache): __init__ and initialize() run
\* as steps, the target running or not, the OS refusing a call or not; the
\* monitor runs once it is started.
\* lines 113-115: except Exception catches every error _connect raises
Caught(err) == err \in {"ProcessNotFoundError", "MemoryAccessError"}

\* lines 50-83 and 103: the fields, then initialize() calls _connect()
Construct(auto, cache) ==
    /\ pc["caller"] = "new"
    /\ auto_reconnect' = auto /\ cache_enabled' = cache /\ blocked_regions' = <<>>
    /\ memory_cache' = EmptyMap /\ cache_timestamp' = EmptyMap
    /\ connected' = FALSE /\ pid' = 0 /\ handle' = 0
    /\ base_addr' = None /\ module_size' = None
    /\ is_wow64' = FALSE /\ ptr_type' = "None"
    /\ last_connect_attempt' = 0
    /\ monitor_thread' = FALSE /\ stop_monitoring' = FALSE
    /\ Call("caller", "cn_stamp", "in_after")
    /\ UNCHANGED <<envVars, wake, callVars, hist>>
    /\ UNCHANGED player

\* lines 105-115 and 723: the monitor is started if _connect() did not raise;
\* initialize() returns, __init__ ignores what it returns, and the factory
\* returns the object
in_after ==
    /\ pc["caller"] = "in_after"
    /\ LET err == hist.connErr["caller"]
           start == err = "None" /\ auto_reconnect /\ ~monitor_thread
       IN  /\ monitor_thread' = (monitor_thread \/ start)
           /\ stop_monitoring' = (IF start THEN FALSE ELSE stop_monitoring)
           /\ pc' = [pc EXCEPT !["caller"] = "idle",
                               !["monitor"] = IF start THEN "m_check" ELSE @]
           /\ result' = [op |-> "construct",
                         kind |-> IF err # "None" /\ ~Caught(err) THEN err ELSE "object",
                         value |-> None]
    /\ UNCHANGED <<envVars, cfgVars, connVars, cacheVars, wake, rd, rs, stack, hist>>
    /\ UNCHANGED player

InitTimes == {T0 + k * reconnect_interval : k \in 0..MaxPeriods}

\* before __init__ has run
NewObject(times, nfaults) ==
    /\ now = T0 /\ grid = times
    /\ faults = nfaults
    /\ \E running \in BOOLEAN :
          /\ proc = (IF running THEN 1 ELSE 0)
          /\ nextPid = (IF running THEN 2 ELSE 1)
    /\ procWow64 \in BOOLEAN
    /\ osHandle = [h \in 1..MaxHandle |-> 0]
    /\ mem = EmptyMap
    /\ auto_reconnect = FALSE /\ cache_enabled = FALSE /\ blocked_regions = <<>>
    /\ connected = FALSE /\ pid = 0 /\ handle = 0
    /\ base_addr = None /\ module_size = None
    /\ is_wow64 = FALSE /\ ptr_type = "None"
    /\ last_connect_attempt = 0
    /\ memory_cache = EmptyMap /\ cache_timestamp = EmptyMap
    /\ stop_monitoring = FALSE /\ monitor_thread = FALSE
    /\ pc = [t \in Threads |-> IF t = "caller" THEN "new" ELSE "m_none"]
    /\ stack = [t \in Threads |-> <<>>]
    /\ rd = RdIdle /\ rs = RsIdle /\ wake = 0
    /\ result = [op |-> "none", kind |-> "none", value |-> None]
    /\ hist = HistInit
    /\ player = NoPlayer

InitNew == NewObject(InitTimes, MaxFaults)

NextInit ==
    \/ \E auto \in BOOLEAN, cache \in BOOLEAN : Construct(auto, cache)
    \/ in_after
    \/ \E t \in Threads : ThreadStep(t)
    \/ MonitorStep
    \/ Tick \/ ProcessExit \/ ProcessStart

SpecInit == InitNew /\ [][NextInit]_vars

\* ------------------------------------------- repeated initialize()
\* mm.initialize() called on the constructed object, line 103: _connect()
Initialize(times) ==
    /\ pc["caller"] = "idle"
    /\ hist.inits < times
    /\ Call("caller", "cn_stamp", "in_return")
    /\ result' = [op |-> "none", kind |-> "none", value |-> None]
    /\ hist' = [hist EXCEPT !.inits = @ + 1]
    /\ UNCHANGED <<envVars, cfgVars, connVars, cacheVars, monVars, rd, rs>>
    /\ UNCHANGED player

\* lines 105-115: the monitor is started if _connect() did not raise and no
\* monitor thread is recorded; return self.connected, or False on an error
in_return ==
    /\ pc["caller"] = "in_return"
    /\ LET err == hist.connErr["caller"]
           start == err = "None" /\ auto_reconnect /\ ~monitor_thread
       IN  /\ monitor_thread' = (monitor_thread \/ start)
           /\ stop_monitoring' = (IF start THEN FALSE ELSE stop_monitoring)
           /\ pc' = [pc EXCEPT !["caller"] = "idle",
                               !["monitor"] = IF start THEN "m_check" ELSE @]
           /\ result' = [op |-> "initialize", kind |-> "value",
                         value |-> IF err = "None" THEN connected ELSE FALSE]
    /\ UNCHANGED <<envVars, cfgVars, connVars, cacheVars, wake, rd, rs, stack, hist>>
    /\ UNCHANGED player

\* The object is constructed, then initialize() is called up to MaxInits
\* times more, the target running or not.
NextReinit ==
    \/ \E auto \in BOOLEAN, cache \in BOOLEAN : Construct(auto, cache)
    \/ in_after
    \/ Initialize(MaxInits)
    \/ in_return
    \/ \E t \in Threads : ThreadStep(t)
    \/ MonitorStep
    \/ Tick \/ ProcessExit \/ ProcessStart

SpecReinit == InitNew /\ [][NextReinit]_vars

\* --------------------------------------- creation with auto-reconnect
\* The object is created with auto_reconnect=True, the target running or
\* not, and the caller calls nothing afterwards; threads that exist keep
\* running, time goes on, no call of the OS is refused.
InitAbsent == NewObject(MonTimes, 0)

NextAbsent ==
    \/ \E cache \in BOOLEAN : Construct(TRUE, cache)
    \/ in_after
    \/ \E t \in Threads : ThreadStep(t)
    \/ MonitorStep
    \/ Tick \/ ClockShift \/ ProcessExit \/ ProcessStart

SpecAbsent ==
    InitAbsent /\ [][NextAbsent]_vars
    /\ WF_vars((\E cache \in BOOLEAN : Construct(TRUE, cache)) \/ in_after
               \/ ThreadStep("caller"))
    /\ WF_vars(MonitorStep \/ ThreadStep("monitor"))
    /\ WF_vars(Tick \/ ClockShift)

\* ------------------------------------------------------------ PathPlayer
\* src/utils/direct_player.py.  The main thread runs start(); the keyboard
\* library runs the hotkey callbacks stop() and toggle_pause() on its own
\* thread.  player.pc is the main thread's statement, player.hk the hotkey
\* thread's; mem_open: the handle of self.mem is open; hooked: the hotkeys
\* are registered.
ACTION_MOVE == "move"
ACTION_CLICK == "click"
ACTION_WAIT == "wait"
ActionTypes == {ACTION_MOVE, ACTION_WAIT, "jump"}
Paths == UNION {[1..n -> ActionTypes] : n \in 0..MaxPath}

\* lines 56-57, 65, 77, 88-90: the object after __init__, start() called
PlayerNew(path) ==
    [pc |-> "pl_start", hk |-> "idle", path |-> path,
     stopped |-> FALSE, shutting_down |-> FALSE,
     paused |-> FALSE, pause_event |-> TRUE,
     i |-> 0, hooked |-> FALSE, mem_open |-> TRUE]

PlayerOnly == UNCHANGED <<envVars, cfgVars, connVars, cacheVars, monVars, callVars,
                          pc, stack>>

\* lines 125-127, 135-136: an empty path ends start() at once
pl_start ==
    /\ player.pc = "pl_start"
    /\ player' = [player EXCEPT !.pc = IF Len(player.path) < 1 THEN "done"
                                       ELSE "pl_readpos",
                                !.i = 0]
    /\ UNCHANGED hist /\ PlayerOnly

\* lines 207-214: get_coordinates_from_memory; on an error _shutdown() and
\* return
pl_readpos ==
    /\ player.pc = "pl_readpos"
    /\ \E ok \in BOOLEAN :
          player' = [player EXCEPT !.pc = IF ok THEN "pl_hook" ELSE "sd_check"]
    /\ UNCHANGED hist /\ PlayerOnly

\* lines 217-221: keyboard.add_hotkey('esc', self.stop) and
\* add_hotkey(self.pause_key, self.toggle_pause); line 225: _execute_path()
pl_hook ==
    /\ player.pc = "pl_hook"
    /\ player' = [player EXCEPT !.pc = "pl_loop", !.hooked = TRUE]
    /\ UNCHANGED hist /\ PlayerOnly

\* line 380: while i < len(self.path) and not self._stopped and not
\* self._shutting_down
LoopContinues(i, n, stopped, shutting_down) == i < n /\ ~stopped /\ ~shutting_down

\* line 380, and line 228 (self._shutdown()) when the loop is left
pl_loop ==
    /\ player.pc = "pl_loop"
    /\ player' = [player EXCEPT !.pc =
                    IF LoopContinues(player.i, Len(player.path), player.stopped,
                                     player.shutting_down)
                      THEN "pl_pause" ELSE "sd_check"]
    /\ UNCHANGED hist /\ PlayerOnly

\* line 366: if self.paused
pl_pause ==
    /\ player.pc = "pl_pause"
    /\ player' = [player EXCEPT !.pc = IF player.paused THEN "pl_wait" ELSE "pl_action"]
    /\ UNCHANGED hist /\ PlayerOnly

\* line 368: self.pause_event.wait() returns once the event is set
pl_wait ==
    /\ player.pc = "pl_wait"
    /\ player.pause_event
    /\ player' = [player EXCEPT !.pc = "pl_action"]
    /\ UNCHANGED hist /\ PlayerOnly

\* lines 385-408: an action of a known type is executed unless
\* _shutting_down is set; then i += 1 and current_action_index = i
pl_action ==
    /\ player.pc = "pl_action"
    /\ LET known == player.path[player.i + 1] \in {ACTION_MOVE, ACTION_CLICK, ACTION_WAIT}
           runs == known /\ ~player.shutting_down
       IN  hist' = [hist EXCEPT !.plActs = @ + (IF runs THEN 1 ELSE 0),
                                !.plLate = @ \/ (runs /\ hist.stopDone)]
    /\ player' = [player EXCEPT !.pc = "pl_loop", !.i = @ + 1]
    /\ PlayerOnly

\* lines 510-511: if self._shutting_down: return
sd_check ==
    /\ player.pc = "sd_check"
    /\ player' = [player EXCEPT !.pc = IF player.shutting_down THEN "done"
                                       ELSE "sd_flags"]
    /\ UNCHANGED hist /\ PlayerOnly

\* lines 513-514, 518
sd_flags ==
    /\ player.pc = "sd_flags"
    /\ player' = [player EXCEPT !.pc = "sd_unhook", !.shutting_down = TRUE,
                                !.stopped = TRUE]
    /\ UNCHANGED hist /\ PlayerOnly

\* line 521: keyboard.unhook_all()
sd_unhook ==
    /\ player.pc = "sd_unhook"
    /\ player' = [player EXCEPT !.pc = "sd_cleanup", !.hooked = FALSE]
    /\ hist' = [hist EXCEPT !.unhooks = @ + 1]
    /\ PlayerOnly

\* lines 524-525: self.mem.cleanup() closes the handle (line 568)
sd_cleanup ==
    /\ player.pc = "sd_cleanup"
    /\ player' = [player EXCEPT !.pc = "done", !.mem_open = FALSE]
    /\ hist' = [hist EXCEPT !.memCleanups = @ + 1]
    /\ PlayerOnly

\* the stop hotkey is pressed; line 501: self._stopped = True
stop ==
    /\ player.hooked /\ player.hk = "idle"
    /\ player' = [player EXCEPT !.hk = "st_shutting", !.stopped = TRUE]
    /\ UNCHANGED hist /\ PlayerOnly

\* line 502: self._shutting_down = True; stop() returns
st_shutting ==
    /\ player.hk = "st_shutting"
    /\ player' = [player EXCEPT !.hk = "idle", !.shutting_down = TRUE]
    /\ hist' = [hist EXCEPT !.stopDone = TRUE]
    /\ PlayerOnly

\* the pause hotkey is pressed; lines 234-236 and 241
toggle_pause ==
    /\ player.hooked /\ player.hk = "idle"
    /\ player' = [player EXCEPT !.hk = IF player.paused THEN "tp_set" ELSE "tp_clear",
                                !.paused = ~player.paused]
    /\ hist' = [hist EXCEPT !.pauseAfterStop = @ \/ hist.stopDone]
    /\ PlayerOnly

\* line 237: self.pause_event.set(), or line 242: self.pause_event.clear()
tp_event ==
    /\ player.hk \in {"tp_set", "tp_clear"}
    /\ player' = [player EXCEPT !.hk = "idle", !.pause_event = (player.hk = "tp_set")]
    /\ UNCHANGED hist /\ PlayerOnly

PlayerMain ==
    \/ pl_start \/ pl_readpos \/ pl_hook \/ pl_loop \/ pl_pause \/ pl_wait
    \/ pl_action \/ sd_check \/ sd_flags \/ sd_unhook \/ sd_cleanup

\* ------------------------------------------- PathPlayer specification
\* start() is called on a player with a path of up to MaxPath actions; the
\* user presses the stop and the pause hotkeys at any time while they are
\* registered.  The main thread and a callback under way keep running; a
\* thread waiting on the event runs once the event has been set (set()
\* wakes every waiter, whatever happens to the flag afterwards).
InitPlayer ==
    /\ now = T0 /\ grid = {T0}
    /\ faults = 0 /\ proc = 1 /\ nextPid = 2 /\ procWow64 = FALSE
    /\ osHandle = [h \in 1..MaxHandle |-> 0]
    /\ mem = EmptyMap
    /\ auto_reconnect = FALSE /\ cache_enabled = FALSE /\ blocked_regions = <<>>
    /\ connected = FALSE /\ pid = 0 /\ handle = 0
    /\ base_addr = None /\ module_size = None
    /\ is_wow64 = FALSE /\ ptr_type = "None"
    /\ last_connect_attempt = 0
    /\ memory_cache = EmptyMap /\ cache_timestamp = EmptyMap
    /\ stop_monitoring = FALSE /\ monitor_thread = FALSE
    /\ pc = [t \in Threads |-> IF t = "caller" THEN "idle" ELSE "m_none"]
    /\ stack = [t \in Threads |-> <<>>]
    /\ rd = RdIdle /\ rs = RsIdle /\ wake = 0
    /\ result = [op |-> "none", kind |-> "none", value |-> None]
    /\ hist = HistInit
    /\ \E path \in Paths : player = PlayerNew(path)

NextPlayer ==
    \/ PlayerMain
    \/ stop \/ st_shutting
    \/ toggle_pause \/ tp_event

SpecPlayer ==
    InitPlayer /\ [][NextPlayer]_vars
    /\ SF_vars(PlayerMain)
    /\ WF_vars(st_shutting \/ tp_event)

\* ----------------------------------------------- break_into_single_steps
\* src/movement/movement_utils_simple.py.  A position is a dict with the keys
\* x, y and possibly z: a function on {"x", "y"} or on {"x", "y", "z"}.
Abs(n) == IF n < 0 THEN -n ELSE n
Max(a, b) == IF a >= b THEN a ELSE b

\* line 61: z = start.get('z', end.get('z')), as the set of its values
\* (empty: None)
StepZ(start, end) ==
    IF "z" \in DOMAIN start THEN {start["z"]}
    ELSE IF "z" \in DOMAIN end THEN {end["z"]}
    ELSE {}

\* (variant: one axis at a time, x first)
NextPos_AxisFirst(cx, cy, tx, ty) ==
    IF cx < tx THEN <<cx + 1, cy>>
    ELSE IF cx > tx THEN <<cx - 1, cy>>
    ELSE IF cy < ty THEN <<cx, cy + 1>>
    ELSE IF cy > ty THEN <<cx, cy - 1>>
    ELSE <<cx, cy>>

\* lines 65-94: the if/elif chain choosing (next_x, next_y)
NextPos(cx, cy, tx, ty) ==
    IF cx < tx /\ cy < ty THEN <<cx + 1, cy + 1>>
    ELSE IF cx < tx /\ cy > ty THEN <<cx + 1, cy - 1>>
    ELSE IF cx > tx /\ cy < ty THEN <<cx - 1, cy + 1>>
    ELSE IF cx > tx /\ cy > ty THEN <<cx - 1, cy - 1>>
    ELSE IF cx < tx THEN <<cx + 1, cy>>
    ELSE IF cx > tx THEN <<cx - 1, cy>>
    ELSE IF cy < ty THEN <<cx, cy + 1>>
    ELSE IF cy > ty THEN <<cx, cy - 1>>
    ELSE <<cx, cy>>

\* lines 96-98: step = {'x': next_x, 'y': next_y}; step['z'] = z unless None
StepDict(nx, ny, zs) ==
    IF zs = {} THEN [k \in {"x", "y"} |-> IF k = "x" THEN nx ELSE ny]
    ELSE [k \in {"x", "y", "z"} |->
            IF k = "x" THEN nx ELSE IF k = "y" THEN ny ELSE CHOOSE z \in zs : TRUE]

\* lines 63-103: the while loop, from (current_x, current_y)
RECURSIVE StepsFrom(_, _, _, _, _)
StepsFrom(cx, cy, tx, ty, zs) ==
    IF ~(cx # tx \/ cy # ty) THEN <<>>
    ELSE LET n == NextPos(cx, cy, tx, ty)
         IN  <<StepDict(n[1], n[2], zs)>> \o StepsFrom(n[1], n[2], tx, ty, zs)

\* lines 46-105
break_into_single_steps(start, end) ==
    StepsFrom(start["x"], start["y"], end["x"], end["y"], StepZ(start, end))

\* the positions handed in: integer x and y, with or without z
Coords == (0 - MaxCoord)..MaxCoord
PositionsZ(zvals) ==
    [{"x", "y"} -> Coords]
      \cup {[k \in {"x", "y", "z"} |-> IF k = "z" THEN z ELSE xy[k]] :
               xy \in [{"x", "y"} -> Coords], z \in zvals}

\* steps = break_into_single_steps(current, target), line 291, called once
BreakSteps(start, end) ==
    /\ pc["caller"] = "idle" /\ result.op = "none"
    /\ result' = [op |-> "steps", kind |-> "value",
                  value |-> break_into_single_steps(start, end)]
    /\ hist' = [hist EXCEPT !.stepsIn = <<start, end>>]
    /\ UNCHANGED <<envVars, cfgVars, connVars, cacheVars, monVars, rd, rs, pc, stack,
                   player>>

\* ------------------------------- break_into_single_steps specification
\* The function is applied to every pair of positions with coordinates in
\* Coords, each with or without z (floor 7 for the start, 8 for the end).
InitSteps == Constructed(FALSE, FALSE, FALSE, FALSE, FALSE, EmptyMap, {T0}, 0)

NextSteps ==
    \E start \in PositionsZ({7}), end \in PositionsZ({8}) : BreakSteps(start, end)

SpecSteps == InitSteps /\ [][NextSteps]_vars

\* --------------------------------------------------------- parse_address
\* src/coordinates/conversor_de_eixos.py.  A string is a sequence of
\* characters; the strings here hold no white space, so strip() (lines 21,
\* 47) leaves them as they are.
DecDigits == <<"0", "1", "2", "3", "4", "5", "6", "7", "8", "9">>
UpperHex == <<"A", "B", "C", "D", "E", "F">>
LowerHex == <<"a", "b", "c", "d", "e", "f">>
IsDecChar(c) == \E i \in 1..10 : DecDigits[i] = c
\* line 37: c in '0123456789ABCDEFabcdef'
IsHexChar(c) ==
    IsDecChar(c) \/ (\E i \in 1..6 : UpperHex[i] = c) \/ (\E i \in 1..6 : LowerHex[i] = c)
DigitVal(c) ==
    IF IsDecChar(c) THEN (CHOOSE i \in 1..10 : DecDigits[i] = c) - 1
    ELSE IF \E i \in 1..6 : UpperHex[i] = c
      THEN 9 + (CHOOSE i \in 1..6 : UpperHex[i] = c)
    ELSE 9 + (CHOOSE i \in 1..6 : LowerHex[i] = c)

AllHex(str) == \A i \in 1..Len(str) : IsHexChar(str[i])
AllDec(str) == \A i \in 1..Len(str) : IsDecChar(str[i])

\* the number the digits denote in the base
RECURSIVE DigitsValue(_, _)
DigitsValue(str, base) ==
    IF str = <<>> THEN 0
    ELSE DigitsValue(SubSeq(str, 1, Len(str) - 1), base) * base + DigitVal(str[Len(str)])

\* str.lower().startswith('0x')
StartsWith0x(str) == Len(str) >= 2 /\ str[1] = "0" /\ str[2] \in {"x", "X"}

\* int(str, 16) for a string that starts with 0x: the digits after the
\* prefix, at least one, all hexadecimal; otherwise ValueError
IntBase16(str) ==
    LET digits == SubSeq(str, 3, Len(str))
    IN  IF digits # <<>> /\ AllHex(digits)
          THEN [kind |-> "value", value |-> DigitsValue(digits, 16)]
          ELSE [kind |-> "ValueError", value |-> 0]

\* int(str): an optional sign, then decimal digits, at least one; otherwise
\* ValueError
IntBase10(str) ==
    LET signed == str # <<>> /\ str[1] \in {"-", "+"}
        digits == IF signed THEN Tail(str) ELSE str
    IN  IF digits # <<>> /\ AllDec(digits)
          THEN [kind |-> "value",
                value |-> IF signed /\ str[1] = "-" THEN 0 - DigitsValue(digits, 10)
                          ELSE DigitsValue(digits, 10)]
          ELSE [kind |-> "ValueError", value |-> 0]

\* line 24: re.search(r'P->([0-9A-Fa-f]+)', addr_str): the places where the
\* pattern matches, and the group of the leftmost match (the longest run of
\* hexadecimal digits after the arrow)
MatchesAt(str, i) ==
    /\ i + 3 <= Len(str)
    /\ str[i] = "P" /\ str[i + 1] = "-" /\ str[i + 2] = ">"
    /\ IsHexChar(str[i + 3])
MatchGroup(str) ==
    LET i == CHOOSE k \in 1..Len(str) :
                 MatchesAt(str, k) /\ \A j \in 1..(k - 1) : ~MatchesAt(str, j)
        last == CHOOSE e \in (i + 3)..Len(str) :
                    /\ AllHex(SubSeq(str, i + 3, e))
                    /\ e = Len(str) \/ ~IsHexChar(str[e + 1])
    IN  SubSeq(str, i + 3, last)

\* lines 16-41: "0x" and the digits, or None
extract_address(addr_str) ==
    IF \E i \in 1..Len(addr_str) : MatchesAt(addr_str, i)
      THEN <<"0", "x">> \o MatchGroup(addr_str)
    ELSE IF StartsWith0x(addr_str) THEN addr_str
    ELSE IF AllHex(addr_str) THEN <<"0", "x">> \o addr_str
    ELSE None

\* lines 43-62
parse_address(addr_str) ==
    LET extracted == extract_address(addr_str)
        str == IF extracted # None THEN extracted ELSE addr_str
    IN  IF StartsWith0x(str) THEN IntBase16(str) ELSE IntBase10(str)

\* the characters the user types
AddrChars == {"0", "1", "7", "A", "x", "P", "-", ">"}
AddrStrings == UNION {[1..n -> AddrChars] : n \in 0..MaxAddrLen}

\* x_addr = parse_address(x_addr_str), line 198, called once
ParseAddress(addr_str) ==
    /\ pc["caller"] = "idle" /\ result.op = "none"
    /\ result' = [op |-> "parse", kind |-> parse_address(addr_str).kind,
                  value |-> parse_address(addr_str).value]
    /\ hist' = [hist EXCEPT !.addrIn = addr_str]
    /\ UNCHANGED <<envVars, cfgVars, connVars, cacheVars, monVars, rd, rs, pc, stack,
                   player>>

\* ------------------------------------------- parse_address specification
\* The function is applied to every string of up to MaxAddrLen characters
\* of AddrChars.
InitParse == Constructed(FALSE, FALSE, FALSE, FALSE, FALSE, EmptyMap, {T0}, 0)

NextParse == \E addr_str \in AddrStrings : ParseAddress(addr_str)

SpecParse == InitParse /\ [][NextParse]_vars

\* ------------------------------------------------------------------ claims
ReadDone == pc["caller"] = "idle" /\ result.op = "read"
ResolveDone == pc["caller"] = "idle" /\ result.op = "resolve"

\* C1: with caching on, a read of a key whose last successful read was
\* stamped less than cache_duration before this call looks at the clock, with
\* no reconnect in between, returns that read's value and reads nothing from
\* the device.
C1_CacheHit ==
    (ReadDone /\ hist.fresh) =>
        /\ result.kind = "value"
        /\ result.value = hist.expect
        /\ hist.devReads = 0

\* a cache hit while the device holds another value
C1_Witness ==
    /\ ReadDone /\ hist.fresh /\ hist.fromCache
    /\ result.kind = "value"
    /\ proc # 0 /\ HandleLive(handle)
    /\ result.value # ReadAs(mem[hist.address], c_int32)

\* the address of the call lies in a region configured when it was made
CallBlocked ==
    /\ hist.address # None
    /\ \E r \in 1..Len(hist.regions) :
          /\ ~Less(hist.address, hist.regions[r][1])
          /\ ~Less(hist.regions[r][2], hist.address)

\* C2: a read of an address inside a blocked region (bounds included) never
\* reads the device, and on a live connection ends with the blocked-address
\* error, cache entry or not.
C2_BlockedNeverRead ==
    CallBlocked =>
        /\ hist.devReads = 0
        /\ ~hist.fromCache
        /\ ReadDone => result.kind \in {"Blocked", "NotConnected"}
        /\ (ReadDone /\ hist.live) => result.kind = "Blocked"

\* the region's upper bound, refused although its cache entry is fresh
C2_Witness ==
    /\ ReadDone /\ CallBlocked /\ hist.live
    /\ hist.address = I(41)
    /\ result.kind = "Blocked"
    /\ <<I(41), c_int32>> \in DOMAIN memory_cache
    /\ <<I(41), c_int32>> \in DOMAIN cache_timestamp
    /\ now - cache_timestamp[<<I(41), c_int32>>] < cache_duration

\* the pointer-sized word the device holds at address a
PtrAt(a) ==
    IF a \notin DOMAIN mem THEN I(-1)
    ELSE IF procWow64 THEN <<0, mem[a][2] % 2^8, mem[a][3]>>
    ELSE <<mem[a][1] % 2^16, mem[a][2], mem[a][3]>>

\* a_0 = base + base_offset, a_i = (word at a_(i-1)) + o_i, for the call made
RECURSIVE ChainAddr(_)
ChainAddr(i) ==
    IF i = 0
      THEN IF hist.startBase = None THEN hist.chain.base_address
           ELSE Add(hist.startBase, hist.chain.base_address)
      ELSE Add(PtrAt(ChainAddr(i - 1)), hist.chain.offsets[i])

ChainLen == Len(hist.chain.offsets)
ChainInRange == \A i \in 1..ChainLen : Leq(I(0), ChainAddr(i)) /\ Less(ChainAddr(i), Pow2_48)
ChainReturnsLast ==
    /\ result.kind = "value"
    /\ result.value = ChainAddr(ChainLen)
    /\ hist.readLog = [i \in 1..ChainLen |-> ChainAddr(i - 1)]

\* C3 (as amended): when every pointer read succeeds and every a_i, 1<=i<=n,
\* lies in [0, 2^48), resolve_pointer_chain returns a_n having read exactly
\* a_0..a_(n-1) in that order.
C3_ChainResolves ==
    (ResolveDone /\ hist.failedReads = 0 /\ ChainInRange) => ChainReturnsLast

\* C3 as stated: a_n is returned whenever every pointer read succeeds.
C3_AsStated ==
    (ResolveDone /\ hist.failedReads = 0) => ChainReturnsLast

\* base_offset 0x1000, offsets [0x10, 0x20]: 0x2000 at base+0x1000, 0x3000 at
\* 0x2010, result 0x3020
C3_Witness ==
    /\ ResolveDone /\ hist.failedReads = 0
    /\ hist.startBase = ModBase(1)
    /\ hist.chain = [base_address |-> I(4096), offsets |-> <<I(16), I(32)>>]
    /\ hist.readLog = <<Add(ModBase(1), I(4096)), I(8208)>>
    /\ result.kind = "value" /\ result.value = I(12320)

\* C4: with no offsets resolve_pointer_chain returns base_addr + base_offset
\* (base_offset alone when base_addr is None), reads nothing, and leaves the
\* connection and the cache as they were.
C4_EmptyOffsets ==
    /\ [](ResolveDone /\ hist.chain.offsets = <<>> =>
            /\ result.kind = "value"
            /\ result.value = (IF hist.startBase = None THEN hist.chain.base_address
                               ELSE Add(hist.startBase, hist.chain.base_address))
            /\ hist.devReads = 0 /\ hist.readLog = <<>>)
    /\ [][((rs.active /\ rs.offsets = <<>>) \/ (rs'.active /\ rs'.offsets = <<>>)) =>
            UNCHANGED <<connVars, cacheVars>>]_vars

\* no module base known: the base offset comes back as it went in
C4_Witness ==
    /\ ResolveDone /\ hist.chain.offsets = <<>>
    /\ hist.startBase = None
    /\ result.kind = "value" /\ result.value = hist.chain.base_address

\* C7: the caller's reads pass the throttle at most once per call, and two
\* passes (the attempt of initialize() at T0 included) are at least
\* reconnect_interval apart, whether the attempts failed or not.
C7_CallerThrottle ==
    /\ hist.callPasses <= 1
    /\ hist.passAt["caller"] # -1 =>
          hist.passAt["caller"] - (IF hist.prevPass = -1 THEN T0 ELSE hist.prevPass)
              >= reconnect_interval

\* two attempts were made, both failed, and a read at the time of the second
\* is turned away by the throttle
C7_Witness ==
    /\ ReadDone /\ result.kind = "NotConnected"
    /\ auto_reconnect /\ ~connected /\ proc = 0 /\ nextPid = 1
    /\ hist.prevPass # -1
    /\ hist.callPasses = 0
    /\ now = hist.passAt["caller"]

\* a thread is inside _connect
Connecting == \E t \in Threads : pc[t] \in {"cn_stamp", "cn_find", "cn_notfound", "cn_open",
                                            "cn_arch", "cn_modinfo", "cn_clear1", "cn_clear2",
                                            "cn_live", "cn_failed"}

\* C5: while connected (no connect under way) every cache entry was read
\* from the process of the current connection.
C5_NoStaleEntry ==
    (connected /\ ~Connecting /\ is_process_running) =>
        \A k \in DOMAIN memory_cache \cap DOMAIN hist.cacheSrc : hist.cacheSrc[k] = pid

\* C6: a read issued while disconnected, with auto-reconnect on, the target
\* running and the throttle interval elapsed, which got past the throttle and
\* met no OS failure, returns a value.
C6_ReconnectsInCall ==
    (ReadDone /\ hist.due /\ hist.callPasses >= 1 /\ hist.envOk) => result.kind = "value"

\* C8: the latest passes of the throttle test by the two threads are at
\* least reconnect_interval apart.
C8_SharedThrottle ==
    (hist.passAt["caller"] # -1 /\ hist.passAt["monitor"] # -1) =>
        \/ hist.passAt["caller"] - hist.passAt["monitor"] >= reconnect_interval
        \/ hist.passAt["monitor"] - hist.passAt["caller"] >= reconnect_interval

\* C9: every ReadProcessMemory of a call is given a handle that is open.
C9_OpenHandleOnly == hist.rpmHandle \in {"none", "open"}

\* C10: a read that was in flight when the monitor set connected to False
\* ends with a value or a MemoryAccessError, after at most `retries` device
\* reads.
C10_TypedOutcome ==
    (ReadDone /\ hist.flipped) =>
        /\ result.kind = "value" \/ ErrClass(result.kind) = "MemoryAccessError"
        /\ hist.devReads <= MaxRetries

\* C11: a device read that returns fewer bytes than the type's size is a
\* failed attempt: its value is never about to be cached nor returned, and
\* a read that ends in failure after one has used all its attempts.
C11_ShortReadFails ==
    /\ pc["caller"] \in {"rd_store1", "rd_store2"} => ~hist.lastShort
    /\ (ReadDone /\ result.kind = "value" /\ hist.devReads > 0) => ~hist.lastShort
    /\ (ReadDone /\ hist.shortReads > 0 /\ result.kind # "value") =>
           hist.devReads = hist.retries

\* a short first attempt, then a full one whose value is returned
C11_Witness ==
    /\ ReadDone /\ hist.shortReads = 1 /\ hist.lastErr = "PartialRead"
    /\ hist.devReads = 2
    /\ result.kind = "value"

\* C12: a read with retries = n ends, issues at most n device reads, one per
\* iteration of the loop, and exactly k when attempt k is the first to succeed.
C12_BoundedAttempts ==
    /\ [](hist.devReads <= hist.retries)
    /\ [](pc["caller"] = "rd_rpm" => hist.devReads = rd.i)
    /\ []((ReadDone /\ result.kind = "value" /\ ~hist.fromCache) =>
              hist.devReads = hist.fails + 1)
    /\ (rd.active ~> ~rd.active)

\* the first attempt failed, the second succeeded: two device reads
C12_Witness ==
    /\ ReadDone /\ hist.retries = 2 /\ hist.fails = 1
    /\ hist.devReads = 2 /\ result.kind = "value"

\* C13: when every attempt failed the error raised is the last attempt's;
\* with no attempt made (retries = 0) it is the generic MemoryAccessError; no
\* value is returned in either case.
C13_LastErrorRaised ==
    /\ (ReadDone /\ hist.retries > 0 /\ hist.fails = hist.retries) =>
           result.kind = hist.lastErr /\ result.value = None
    /\ (ReadDone /\ hist.retries = 0 /\ ~hist.fromCache /\ result.kind # "NotConnected") =>
           /\ result.kind = "Generic" /\ result.value = None
           /\ ErrClass(result.kind) = "MemoryAccessError"
           /\ hist.devReads = 0

\* a short read, then a failed read: the second error is the one raised
C13_Witness ==
    /\ ReadDone /\ hist.retries = 2 /\ hist.fails = 2
    /\ hist.shortReads = 1 /\ hist.lastErr = "ReadFailed299"
    /\ result.kind = "ReadFailed299"

\* C14: a read on a connection that is not live ends with the not-connected
\* error: with auto-reconnect off without a reconnect attempt, a device read
\* or a change of connection or cache state; with it on after one throttled
\* reconnect attempt that left the connection not live.
C14_NotConnected ==
    /\ []((ReadDone /\ ~hist.live /\ ~auto_reconnect) =>
            /\ result.kind = "NotConnected"
            /\ hist.tryCalls = 0 /\ hist.callPasses = 0 /\ hist.devReads = 0)
    /\ []((ReadDone /\ ~hist.live /\ auto_reconnect) =>
            /\ hist.tryCalls = 1 /\ hist.callPasses <= 1
            /\ ~connected => (result.kind = "NotConnected" /\ hist.devReads = 0))
    /\ [][((rd.active \/ rd'.active) /\ ~auto_reconnect /\ ~connected) =>
            UNCHANGED <<connVars, cacheVars, osHandle>>]_vars

\* auto-reconnect off: refused although the target is running
C14_Witness ==
    /\ ReadDone /\ ~hist.live /\ ~auto_reconnect
    /\ proc # 0
    /\ result.kind = "NotConnected"

\* position of a check of read_memory in the stated order
CheckRank(c) ==
    CASE c = "conn" -> 1 [] c = "blocked" -> 2 [] c = "cache" -> 3
      [] c = "addr" -> 4 [] c = "device" -> 5

\* 0 <= address < 2^64 for the address of the call
CallAddressValid == Leq(I(0), hist.address) /\ Less(hist.address, Pow2_64)

\* C15: read_memory looks at connected, blocked regions, the cache, the
\* address range and the device in that order, and the first that applies
\* decides the outcome.
C15_CheckOrder ==
    /\ \A i \in 1..Len(hist.checks) : \A j \in 1..Len(hist.checks) :
          i < j => CheckRank(hist.checks[i]) < CheckRank(hist.checks[j])
    /\ ReadDone =>
          /\ hist.checks # <<>> /\ hist.checks[1] = "conn"
          /\ IF ~connected
               THEN result.kind = "NotConnected" /\ Len(hist.checks) = 1
             ELSE IF CallBlocked
               THEN result.kind = "Blocked" /\ hist.checks = <<"conn", "blocked">>
             ELSE IF hist.fresh
               THEN /\ result.kind = "value" /\ result.value = hist.expect
                    /\ hist.checks = <<"conn", "blocked", "cache">>
             ELSE IF ~CallAddressValid
               THEN /\ result.kind = "InvalidAddress"
                    /\ hist.checks[Len(hist.checks)] = "addr"
             ELSE hist.checks[Len(hist.checks)] = "device" /\ hist.devReads = 1

\* a blocked address whose cache entry is fresh reports blocked
C15_Witness ==
    /\ ReadDone /\ connected /\ CallBlocked
    /\ hist.address = I(40)
    /\ <<I(40), c_int32>> \in DOMAIN memory_cache
    /\ <<I(40), c_int32>> \in DOMAIN cache_timestamp
    /\ now - cache_timestamp[<<I(40), c_int32>>] < cache_duration
    /\ result.kind = "Blocked"

\* C16: on a target with 4-byte pointers a read of an address >= 2^32 that
\* gets as far as the address check ends with the invalid-address error and
\* no device read.
C16_WidthAwareRange ==
    (ReadDone /\ connected /\ is_wow64 /\ ~CallBlocked /\ ~hist.fromCache
       /\ ~Less(hist.address, Pow2_32)) =>
        result.kind = "InvalidAddress" /\ hist.devReads = 0

\* C17: every attempt of a read that failed on an invalid handle was
\* followed at once by a call of _try_reconnect.
C17_EscalatesInvalidHandle == hist.escalations = hist.invalidFails

\* C18: after an attempt failed on an invalid handle, no device read is
\* issued by the same call unless a connect has succeeded since.
C18_AbandonsRetries == hist.lateReads = 0

\* C19: when _connect() returns to initialize() after the process was found,
\* its handle opened and the enumeration of its modules failed, the
\* connection is live, the handle is open, the cache is empty and the base
\* address is undefined.
C19_EnumFailureTolerated ==
    (pc["caller"] = "in_after" /\ hist.modinfo["caller"] = "enumfail") =>
        /\ connected
        /\ handle # 0 /\ osHandle[handle] # 0
        /\ memory_cache = EmptyMap /\ cache_timestamp = EmptyMap
        /\ base_addr = None

ConstructDone == pc["caller"] = "idle" /\ result.op = "construct"

\* C20: a construction whose _connect() found no process hands
\* ProcessNotFoundError to the caller, one whose _connect() failed otherwise
\* hands MemoryAccessError to the caller, and in both cases the connection is
\* not live and no handle is held.
C20_ConnectErrorReported ==
    (ConstructDone /\ hist.connErr["caller"] # "None") =>
        /\ result.kind = hist.connErr["caller"]
        /\ ~connected /\ handle = 0

CleanupDone == pc["caller"] = "idle" /\ result.op = "cleanup"

\* C21: with no monitor alive when cleanup() reaches _close_handle(): if no
\* handle is held CloseHandle is not called; if one is held it is called once
\* and the handle is closed; and a cleanup() that follows such a cleanup()
\* calls it not at all and ends in the state the first one ended in.
C21_DisconnectIdempotent ==
    /\ (hist.inCleanup /\ hist.handleAtStart = 0 /\ hist.quiet) => hist.closeCalls = 0
    /\ (CleanupDone /\ hist.handleAtStart # 0 /\ hist.quiet) =>
          hist.closeCalls = 1 /\ osHandle[hist.handleAtStart] = 0 /\ handle = 0
    /\ (CleanupDone /\ hist.prevSnap # None /\ hist.quiet) =>
          hist.closeCalls = 0 /\ hist.snap = hist.prevSnap

\* a second cleanup() has returned after a first one that closed the handle
C21_Witness ==
    /\ CleanupDone /\ hist.cleanups = 2 /\ hist.prevSnap # None /\ hist.quiet
    /\ hist.closeCalls = 0 /\ handle = 0 /\ osHandle[1] = 0 /\ pid = 1

RunningDone == pc["caller"] = "idle" /\ result.op = "is_running"

\* C22: is_process_running raises nothing and changes no field; it returns
\* true exactly when a pid is recorded, psutil finds the process, the process
\* is running and its name equals the target name letter case apart; it
\* returns false when no pid is recorded, the process is gone, access is
\* denied, it is a zombie or the name is another one.
C22_RunningCheckTotal ==
    /\ [][(pc["caller"] = "idle" /\ result'.op = "is_running" /\ hist'.psutil # hist.psutil)
            => ObjectState' = ObjectState]_vars
    /\ [](RunningDone =>
            /\ result.kind = "value"
            /\ result.value \in BOOLEAN
            /\ result.value <=>
                 /\ pid # 0
                 /\ hist.psutil.lookup = "ok"
                 /\ hist.psutil.running
                 /\ hist.psutil.named = "ok"
                 /\ hist.psutil.name \in
                      {<<"G", "a">>, <<"g", "A">>, <<"g", "a">>, <<"G", "A">>})

\* a running process whose name differs from the target in case only
C22_Witness ==
    /\ RunningDone /\ pid = 1 /\ hist.psutil.lookup = "ok" /\ hist.psutil.running
    /\ hist.psutil.named = "ok" /\ hist.psutil.name = <<"g", "A">>
    /\ result.value = TRUE

\* C23: in the monitor running alone, connected changes only at the
\* monitor's line 480 (to false, the recorded process not running) and at its
\* successful connect (to true), the two alternating; and if the target ends
\* up running for good, a connection whose process is gone is eventually
\* marked not connected and a connection marked not connected is eventually
\* connected again.
C23_MonitorReconnects ==
    /\ [][connected' # connected =>
            /\ Len(hist'.monLog) = Len(hist.monLog) + 1
            /\ IF connected THEN pc["monitor"] = "m_flip" /\ ~is_process_running
                            ELSE pc["monitor"] = "cn_live" /\ HandleOpen(handle)]_vars
    /\ [](\A k \in 1..Len(hist.monLog) :
             hist.monLog[k] = IF k % 2 = 1 THEN "down" ELSE "up")
    /\ (<>[](proc # 0)) =>
          /\ (connected /\ pid # proc) ~> ~connected
          /\ ~connected ~> connected

\* the monitor has marked the connection down and connected to the restarted
\* target
C23_Witness ==
    /\ hist.monLog = <<"down", "up">> /\ connected /\ pid = 2 /\ proc = 2
    /\ HandleLive(handle) /\ pc["caller"] = "idle"

C25_MonitorSurvivesErrors ==
    /\ [](pc["monitor"] \in {"m_exit", "m_dead"} => stop_monitoring)
    /\ []<>(pc["monitor"] = "m_check" \/ stop_monitoring)

\* after an error of the running-check and a reconnect attempt that raised,
\* the monitor is at the test of its loop
C25_Witness ==
    /\ hist.monErrs = 1 /\ hist.connErr["monitor"] = "ProcessNotFoundError"
    /\ pc["monitor"] = "m_check" /\ ~stop_monitoring

\* C26: when a read returns a value taken from the cache, no entry of the
\* cache was older than cache_timeout at the time the read looked at the
\* clock.
C26_PurgedBeforeHit ==
    (ReadDone /\ hist.fromCache) => hist.hitStale = {}

MonitorBetweenAttempts == pc["monitor"] \in {"m_check", "m_sleep", "m_wait"}

\* C27: in the monitor running alone, a step changes the entries of the
\* cache only inside clear_cache of a connect attempt; after an attempt that
\* failed the cache is what it was when the attempt began, and after one
\* that succeeded it is empty.
C27_CacheKeptUntilReconnect ==
    /\ [][(memory_cache' # memory_cache
             \/ DOMAIN cache_timestamp' # DOMAIN cache_timestamp
             \/ (now' = now /\ cache_timestamp' # cache_timestamp))
            => pc["monitor"] \in {"cn_clear1", "cn_clear2"}]_vars
    /\ [](MonitorBetweenAttempts /\ hist.cacheBefore # None =>
            IF hist.connErr["monitor"] = "None"
              THEN memory_cache = EmptyMap /\ cache_timestamp = EmptyMap
              ELSE <<memory_cache, cache_timestamp>> = hist.cacheBefore)

\* the connection was marked down and a reconnect attempt failed, the cache
\* still holding its entry
C27_Witness ==
    /\ MonitorBetweenAttempts /\ hist.monLog = <<"down">>
    /\ hist.connErr["monitor"] = "ProcessNotFoundError"
    /\ MonKey \in DOMAIN memory_cache /\ MonKey \in DOMAIN cache_timestamp
    /\ ~connected /\ handle = 0

InRange48(a) == Leq(I(0), a) /\ Less(a, Pow2_48)

\* C29: every address resolve_pointer_chain reads after the first, and every
\* address it returns for a chain with offsets, lies in [0, 2^48); when the
\* pointer reads succeed and some a_i is outside, the call ends with the
\* invalid-address error having read a_0..a_(i-1) only, i the first such
\* step.
C29_StepRangeChecked ==
    /\ \A k \in 2..Len(hist.readLog) : InRange48(hist.readLog[k])
    /\ (ResolveDone /\ ChainLen > 0 /\ result.kind = "value") => InRange48(result.value)
    /\ (ResolveDone /\ hist.failedReads = 0 /\ ~ChainInRange) =>
          /\ result.kind = "InvalidAddress"
          /\ LET j == Len(hist.readLog) IN
               /\ j \in 1..ChainLen
               /\ ~InRange48(ChainAddr(j))
               /\ \A i \in 1..(j - 1) : InRange48(ChainAddr(i))
               /\ hist.readLog = [i \in 1..j |-> ChainAddr(i - 1)]

\* 0x1000,[0x20, 0x10] on a 64-bit target with 2^48 stored at 0x2020: the
\* second step leaves the range and nothing more is read
C29_Witness ==
    /\ ResolveDone /\ hist.failedReads = 0 /\ ~procWow64
    /\ hist.startBase = None
    /\ hist.chain = [base_address |-> I(4096), offsets |-> <<I(32), I(16)>>]
    /\ hist.readLog = <<I(4096), I(8224)>>
    /\ result.kind = "InvalidAddress"

\* C28: a resolve_pointer_chain call one of whose pointer reads failed ends
\* with the error that names the step of that read, the last read issued.
C28_FailingStepNamed ==
    (ResolveDone /\ hist.failedReads > 0) =>
        /\ result.kind = "ResolveFailed"
        /\ result.value = I(Len(hist.readLog))

\* a read_memory call is under way with the cache off for it
UncachedCall == rd.active /\ ~(cache_enabled /\ rd.use_cache)
\* the step is one of the caller
CallerStep == pc'["monitor"] = pc["monitor"] /\ pc'["caller"] # pc["caller"]

\* C30 (as amended): a read with use_cache false or cache_enabled false takes
\* no step of the cache stage and stores nothing; a value it returns comes
\* from the device read that ends it; and its steps change the cache only
\* inside clear_cache of a connect it makes at line 153.
C30_UncachedRead ==
    /\ [](UncachedCall =>
            pc["caller"] \notin {"rd_hit", "rd_purge", "rd_store1", "rd_store2"})
    /\ [][(UncachedCall /\ result'.op = "read" /\ result'.kind = "value")
            => pc["caller"] = "rd_rpm" /\ hist'.devReads = hist.devReads + 1]_vars
    /\ [][(UncachedCall /\ CallerStep /\ cacheVars' # cacheVars)
            => pc["caller"] \in {"cn_clear1", "cn_clear2"}]_vars

\* C30 as stated: no step of such a read changes the cache.
C30_AsStated ==
    [][(UncachedCall /\ CallerStep) => cacheVars' = cacheVars]_vars

\* the entry stored at T0 is fresh and untouched, and a read of its address
\* has returned a value read from the device
C30_Witness ==
    /\ ReadDone /\ result.kind = "value" /\ hist.address = I(31)
    /\ hist.devReads = 1 /\ ~hist.fromCache
    /\ now = T0 /\ hist.monLog = <<>> /\ cache_enabled
    /\ memory_cache = MapPut(EmptyMap, MonKey, I(1))
    /\ cache_timestamp = MapPut(EmptyMap, MonKey, T0)


\* no call of the caller and no iteration of the monitor is under way
Quiescent == pc["caller"] = "idle" /\ ~MonitorBusy

\* C31: in every reachable state, connected = true implies that a handle
\* is held and open; the flag is never true while the handle is released
\* (stated between operations: no call or monitor iteration is under way).
C31_ConnectedHoldsHandle == Quiescent => (connected => HandleOpen(handle))

\* the handles this process has open
OpenHandles == {h \in 1..MaxHandle : osHandle[h] # 0}

\* C32: the manager owns at most one open OS handle at any time and closes
\* every handle it opened exactly once: between operations every open
\* handle is the one the handle field refers to (none was overwritten
\* without being closed).
C32_SingleHandle == Quiescent => OpenHandles \subseteq {handle}

\* C33: after cleanup() has returned, the manager holds no open handle and
\* opens none again (no initialize() is called here), also when the join of
\* line 122 returned while the monitor was inside an iteration.
C33_ClosedAfterCleanup ==
    (pc["caller"] = "idle" /\ hist.cleanups > 0) => OpenHandles = {}

\* C34: with auto-reconnect enabled, if the target is absent when the manager
\* is created and runs from some time on, the connection eventually becomes
\* live without any read: the monitor runs whether or not the initial connect
\* succeeded.
C34_ConnectsWithoutRead ==
    (<>[](proc # 0)) =>
        ((ConstructDone /\ auto_reconnect
            /\ hist.connErr["caller"] = "ProcessNotFoundError") ~> connected)

\* C35: after every successful (re)connect, base_addr and module_size either
\* describe the module of the process the handle is open on or are undefined;
\* they never keep the values recorded for a previous connection.
C35_BaseOfCurrentProcess ==
    (Quiescent /\ connected /\ HandleOpen(handle)) =>
        \/ base_addr = None /\ module_size = None
        \/ base_addr = ModBase(osHandle[handle]) /\ module_size = ModSize(osHandle[handle])

\* C36: the cache's value map and timestamp map have exactly the same key
\* set under every interleaving of a caller's read with the monitor's clear
\* on reconnect (stated between operations), so every cached value has a
\* timestamp.
C36_CacheMapsAgree == Quiescent => DOMAIN memory_cache = DOMAIN cache_timestamp

\* the main thread is inside the playback loop of _execute_path
InPlayback == player.pc \in {"pl_loop", "pl_pause", "pl_wait", "pl_action"}

\* C37: after stop() is called during playback the loop starts no further
\* action and eventually terminates, also when playback is paused at the
\* moment stop() is called (the pause hotkey not being pressed after the
\* stop).
C37_StopEndsPlayback ==
    /\ [](~hist.plLate)
    /\ hist.stopDone ~> (~InPlayback \/ hist.pauseAfterStop)

\* start() has returned after a playback (the path was not empty)
PlaybackEnded == player.pc = "done" /\ Len(player.path) >= 1

\* C38: on every way playback can end after start() (path completed, initial
\* position read failed, stopped by the stop hotkey) shutdown has released
\* the resources exactly once: the hotkeys are unhooked and the memory
\* manager's cleanup() has been called, so the handle is closed.
C38_ShutdownReleases ==
    PlaybackEnded =>
        /\ hist.unhooks = 1 /\ hist.memCleanups = 1
        /\ ~player.hooked /\ ~player.mem_open

StepsDone == result.op = "steps"

\* C39: break_into_single_steps(start, end) returns exactly max(|dx|, |dy|)
\* positions (none when start = end); each differs from its predecessor
\* (start for the first) by at most 1 in x and at most 1 in y and is not
\* equal to it; the last has the x and y of end; every step carries the z of
\* start, or of end when start has none.
C39_SingleSteps ==
    StepsDone =>
        LET start == hist.stepsIn[1]
            end == hist.stepsIn[2]
            steps == result.value
            prev(k) == IF k = 1 THEN start ELSE steps[k - 1]
        IN  /\ Len(steps) = Max(Abs(end["x"] - start["x"]), Abs(end["y"] - start["y"]))
            /\ \A k \in 1..Len(steps) :
                  /\ Abs(steps[k]["x"] - prev(k)["x"]) <= 1
                  /\ Abs(steps[k]["y"] - prev(k)["y"]) <= 1
                  /\ <<steps[k]["x"], steps[k]["y"]>> # <<prev(k)["x"], prev(k)["y"]>>
                  /\ IF "z" \in DOMAIN start
                       THEN "z" \in DOMAIN steps[k] /\ steps[k]["z"] = start["z"]
                     ELSE IF "z" \in DOMAIN end
                       THEN "z" \in DOMAIN steps[k] /\ steps[k]["z"] = end["z"]
                     ELSE DOMAIN steps[k] = {"x", "y"}
            /\ Len(steps) > 0 =>
                  /\ steps[Len(steps)]["x"] = end["x"]
                  /\ steps[Len(steps)]["y"] = end["y"]

\* a move of 2 east and 1 north from a start without z: a diagonal step and
\* a straight one, both on the floor of the end
C39_Witness ==
    /\ StepsDone
    /\ hist.stepsIn[1] = [k \in {"x", "y"} |-> 0]
    /\ hist.stepsIn[2] = [k \in {"x", "y", "z"} |->
                             IF k = "x" THEN 2 ELSE IF k = "y" THEN -1 ELSE 8]
    /\ Len(result.value) = 2
    /\ result.value[1]["x"] = 1 /\ result.value[1]["y"] = -1 /\ result.value[1]["z"] = 8
    /\ result.value[2]["x"] = 2 /\ result.value[2]["y"] = -1

ParseDone == result.op = "parse"
\* the string is the prefix followed by one hexadecimal digit or more
PrefixedHex(str, prefix) ==
    /\ Len(str) > Len(prefix)
    /\ SubSeq(str, 1, Len(prefix)) = prefix
    /\ AllHex(SubSeq(str, Len(prefix) + 1, Len(str)))

\* a sign followed by decimal digits
SignedDec(str) == Len(str) > 1 /\ str[1] \in {"-", "+"} /\ AllDec(Tail(str))

\* C40: parse_address converts each of the four announced formats to the
\* integer it denotes: 'P->HEX', '0xHEX' and a bare hexadecimal string are
\* read as base 16, a string of decimal digits is read as the decimal number;
\* any other string raises ValueError (what a signed decimal number gives is
\* left open).
C40_AnnouncedFormats ==
    ParseDone =>
        LET str == hist.addrIn
            is(n) == result.kind = "value" /\ result.value = n
        IN  IF PrefixedHex(str, <<"P", "-", ">">>)
              THEN is(DigitsValue(SubSeq(str, 4, Len(str)), 16))
            ELSE IF PrefixedHex(str, <<"0", "x">>)
              THEN is(DigitsValue(SubSeq(str, 3, Len(str)), 16))
            ELSE IF str # <<>> /\ AllDec(str) THEN is(DigitsValue(str, 10))
            ELSE IF str # <<>> /\ AllHex(str) THEN is(DigitsValue(str, 16))
            ELSE IF SignedDec(str) THEN TRUE
            ELSE result.kind = "ValueError"

============================================================================
